---------------------------- MODULE Spec2Model ----------------------------
(***************************************************************************)
(* A state-machine model of the LZAV codec of src/src/c/lzav.h: the two    *)
(* compressors (lzav_compress, lzav_compress_hi), the block writers, the   *)
(* size bounds and the decompressor (lzav_decompress and the two stream    *)
(* decoders).  Positions are 0-based byte offsets into the caller's        *)
(* buffers, as in the C code; a buffer is a sequence of bytes and byte i   *)
(* of buffer s is s[i + 1].  The build modelled is little-endian, 64-bit.  *)
(***************************************************************************)
EXTENDS Integers, Sequences, FiniteSets, TLC

(***************************************************************************)
(* Bounds of the model.                                                    *)
(***************************************************************************)
\* Longest source handed to a compressor.
MaxSrcLen == 48
\* Largest argument of the size-bound functions.
MaxBoundArg == 320
\* Length of the one long source, above the 4096 bytes up to which the
\* hash table of lzav_compress fits its on-stack buffer.
BigSrcLen == 4100

(***************************************************************************)
(* Program constants.                                                      *)
(***************************************************************************)
LZAV_FMT_MIN == 1
LZAV_FMT_CUR == 2
LZAV_E_PARAMS == -1
LZAV_E_SRCOOB == -2
LZAV_E_DSTOOB == -3
LZAV_E_REFOOB == -4
LZAV_E_DSTLEN == -5
LZAV_E_UNKFMT == -6
LZAV_WIN_LEN == 8388608
LZAV_REF_MIN == 6
LZAV_REF_LEN == LZAV_REF_MIN + 15 + 255 + 254
LZAV_LIT_FIN == 6
LZAV_TINY_MAX == 32
LZAV_SMALL_MAX == 256
LZAV_MIN_HTABLE == 512
\* sizeof( stack_buf ) of lzav_compress, in bytes.
\* sizeof( uintptr_t ), the word of lzav_memcpy.
WordSize == 8

StackBufSize == 4096 * 4
\* mref of lzav_compress_hi.
HI_MREF == 5

(***************************************************************************)
(* Bit operations on naturals, by nibble tables.                           *)
(***************************************************************************)
RECURSIVE BitOp(_, _, _, _)
BitOp(f, a, b, n) ==
    IF n = 0 THEN 0
    ELSE (IF f = "and" THEN (a % 2) * (b % 2)
          ELSE IF f = "or" THEN (IF (a % 2) + (b % 2) > 0 THEN 1 ELSE 0)
          ELSE ((a % 2) + (b % 2)) % 2)
         + 2 * BitOp(f, a \div 2, b \div 2, n - 1)

XorTab == [a \in 0..15 |-> [b \in 0..15 |-> BitOp("xor", a, b, 4)]]
OrTab == [a \in 0..15 |-> [b \in 0..15 |-> BitOp("or", a, b, 4)]]

\* a ^ b and a | b for bytes a, b.
Xor8(a, b) == 16 * XorTab[a \div 16][b \div 16] + XorTab[a % 16][b % 16]
Or8(a, b) == 16 * OrTab[a \div 16][b \div 16] + OrTab[a % 16][b % 16]

RECURSIVE Pow2(_)
Pow2(n) == IF n = 0 THEN 1 ELSE 2 * Pow2(n - 1)

Min(a, b) == IF a < b THEN a ELSE b
Max(a, b) == IF a > b THEN a ELSE b
B2N(c) == IF c THEN 1 ELSE 0

(***************************************************************************)
(* Size bounds.                                                            *)
(***************************************************************************)
\* A bound that reserves 3 bytes for each literal block header.
lzav_compress_bound_steep(srcl) ==
    IF srcl <= 0 THEN 16
    ELSE LET k == 16 + 127 + 1
             l2 == srcl \div (k + 6)
         IN  ((srcl - l2 * 6 + k - 1) \div k) * 3 - l2 + srcl + 16

\* A bound without the 16 bytes kept for the over-long copies.
lzav_compress_bound_noslack(srcl) ==
    IF srcl <= 0 THEN 16
    ELSE LET k == 16 + 127 + 1
             l2 == srcl \div (k + 6)
         IN  ((srcl - l2 * 6 + k - 1) \div k) * 2 - l2 + srcl

lzav_compress_bound(srcl) ==
    IF srcl <= 0 THEN 16
    ELSE LET k == 16 + 127 + 1
             l2 == srcl \div (k + 6)
         IN  ((srcl - l2 * 6 + k - 1) \div k) * 2 - l2 + srcl + 16

\* A bound that leaves room for the source and two more bytes only.
lzav_compress_bound_hi_tight(srcl) == srcl + 2

lzav_compress_bound_hi(srcl) ==
    IF srcl <= 0 THEN 16
    ELSE LET l2 == srcl \div (16 + 5)
         IN  ((srcl - l2 * 5 + 15) \div 16) * 2 - l2 + srcl + 16


(***************************************************************************)
(* State.                                                                  *)
(*   data  the bytes the application owns: a source to compress            *)
(*         (kind = "plain") or a byte stream to decode (kind = "stream")   *)
(*   junk  the bytes the program does not own or has not written, a        *)
(*         sequence that memory repeats: what an out-of-bounds or          *)
(*         uninitialised read returns, position by position                *)
(*   pc    where the application is: "idle", in a compressor call          *)
(*         ("compress", "compress_hi"), after it ("c_ret"), in a decoder   *)
(*         call ("decompress_2", "decompress_1"), after it ("d_ret"), or   *)
(*         querying the size bounds ("bound", "bound_ret")                 *)
(*   comp  the compressor call: arguments, locals, destination, result     *)
(*   dec   the decompressor call: arguments, locals, destination, result   *)
(*   bq    the size-bound query: arguments and results                     *)
(***************************************************************************)
VARIABLES data, kind, junk, pc, comp, dec, bq

vars == <<data, kind, junk, pc, comp, dec, bq>>

(***************************************************************************)
(* Memory.  A call works on a record m with the destination buffer m.dst   *)
(* (a sequence of dstl bytes) and the extent of the accesses made so far:  *)
(* source bytes read in [rlo, rhi), destination bytes written in           *)
(* [wlo, whi).  NoPos stands for "no access yet" in rlo and wlo.           *)
(***************************************************************************)
NoPos == Pow2(22)

\* Stands, in a count or a position, for every value of 2^30 and above:
\* larger than any length or position of a call.
Huge == Pow2(30)

\* The byte that lies k positions behind the end of a buffer ( before it
\* for k < 0 ), and the byte at position k of memory not written yet.
JunkAt(k) == junk[(k % Len(junk)) + 1]

\* Byte i of buffer s; outside the buffer the read is out of bounds and
\* yields the byte that lies there.
Rd(s, i) == IF i >= 0 /\ i < Len(s) THEN s[i + 1] ELSE JunkAt(i - Len(s))

\* The n bytes of s from position p on.
RdN(s, p, n) ==
    IF p >= 0 /\ p + n <= Len(s) THEN SubSeq(s, p + 1, p + n)
    ELSE [i \in 1..n |-> Rd(s, p + i - 1)]

\* m after reading n source bytes at position p.
NoteRd(m, p, n) ==
    IF n <= 0 THEN m
    ELSE [m EXCEPT !.rlo = Min(@, p), !.rhi = Max(@, p + n)]

\* m after storing the bytes bs at destination position p (stores beyond
\* the buffer are recorded in whi and otherwise dropped).
Put(m, p, bs) ==
    IF Len(bs) = 0 THEN m
    ELSE [m EXCEPT
            !.dst = IF p >= Len(@) \/ p + Len(bs) <= 0 THEN @
                    ELSE SubSeq(@, 1, p)
                         \o SubSeq(bs, Max(1, 1 - p), Min(Len(bs), Len(@) - p))
                         \o SubSeq(@, p + Len(bs) + 1, Len(@)),
            !.wlo = Min(@, p),
            !.whi = Max(@, p + Len(bs))]

\* lzav_memcpy( dst + p, src + q, n ) from the source buffer s.
CopyIn(m, s, p, q, n) == Put(NoteRd(m, q, n), p, RdN(s, q, n))

\* The 4 bytes of a 32-bit value, little-endian.
LE32(v) == << v % 256, (v \div 256) % 256, (v \div 65536) % 256,
              (v \div 16777216) % 256 >>

\* Byte p of the destination as the program reads it back.
DstAt(m, p) == IF p >= 0 /\ p < Len(m.dst) THEN m.dst[p + 1] ELSE JunkAt(p)

(***************************************************************************)
(* Block codec, write side.                                                *)
(***************************************************************************)
\* The bytes of the variable-length literal count lcw = lc - 16 that
\* follow a literal header whose low nibble is 0.
RECURSIVE LitLenBytes(_)
LitLenBytes(lcw) ==
    IF lcw > 127 THEN <<128 + (lcw % 128)>> \o LitLenBytes(lcw \div 128)
    ELSE <<lcw>>

\* The literal block of lzav_write_blk_2: header carrying cv, then the lc
\* literals at ipa, copied with the over-long lzav_memcpy calls of the
\* code.  Returns the memory and the advanced op.
WriteLit(m, s, op, lc, cv, ipa) ==
    IF lc < 9 THEN
        [m |-> CopyIn(Put(m, op, <<cv + lc>>), s, op + 1, ipa, 8),
         op |-> op + 1 + lc]
    ELSE IF lc < 16 THEN
        [m |-> CopyIn(Put(m, op, <<cv + lc>>), s, op + 1, ipa, 16),
         op |-> op + 1 + lc]
    ELSE IF lc < 16 + 128 THEN
        LET m1 == Put(m, op, <<cv, lc - 16>>)
            m2 == CopyIn(m1, s, op + 2, ipa, 16)
            m3 == CopyIn(m2, s, op + 2 + 16, ipa + 16, 16)
        IN  IF lc < 33 THEN [m |-> m3, op |-> op + 2 + lc]
            ELSE [m |-> CopyIn(m3, s, op + 2 + 32, ipa + 32, lc - 32),
                  op |-> op + 2 + lc]
    ELSE
        LET hb == <<cv>> \o LitLenBytes(lc - 16)
            m1 == Put(m, op, hb)
        IN  [m |-> CopyIn(m1, s, op + Len(hb), ipa, lc),
             op |-> op + Len(hb) + lc]

\* The reference block of lzav_write_blk_2, written after the literal
\* block left lit = [ m, op ]: rc is the length less mref - 1, d the
\* offset bits that remain.  Returns the memory, the advanced op and the
\* new carry pointer and shift.
WriteRef(lit, rc, d) ==
    LET bt == 1 + B2N(d > 1024 - 1) + B2N(d > 262144 - 1)
        ov == d * 64 + bt * 16 + (IF rc < 16 THEN rc ELSE 0)
        op1 == lit.op + bt
        ncsh == IF bt = 3 THEN 3 ELSE 0
    IN  IF rc < 16 THEN
            [m |-> Put(lit.m, lit.op, LE32(ov)), op |-> op1 + 1,
             cbp |-> op1, csh |-> ncsh]
        ELSE IF rc < 16 + 255 THEN
            [m |-> Put(Put(lit.m, lit.op, LE32(ov)), op1 + 1, <<rc - 16>>),
             op |-> op1 + 2, cbp |-> op1, csh |-> ncsh]
        ELSE
            [m |-> Put(Put(Put(lit.m, lit.op, LE32(ov)), op1 + 1, <<255>>),
                       op1 + 2, <<(rc - 16 - 255) % 256>>),
             op |-> op1 + 3, cbp |-> op1, csh |-> ncsh]

\* lzav_write_blk_2 after the offset carry is paid: d1 is d >> csh.
WriteBlk(m0, s, op, lc, rc, d1, ipa) ==
    IF lc # 0
    THEN WriteRef(WriteLit(m0, s, op, lc, (d1 % 4) * 64, ipa), rc, d1 \div 4)
    ELSE WriteRef([m |-> m0, op |-> op], rc, d1)

\* The byte at cbp after "**cbpp |= (uint8_t) (( d << 8 ) >> csh )".
CarryByte(m, cbp, csh, d0) ==
    Or8(DstAt(m, cbp), ((d0 % Pow2(csh)) * Pow2(8 - csh)) % 256)

\* lzav_write_blk_2: pays the offset carry into the byte at cbp, writes the
\* literal block (when lc # 0) and the reference block.
lzav_write_blk_2(m, s, op, lc, rc0, d0, ipa, cbp, csh, mref) ==
    WriteBlk(Put(m, cbp, <<CarryByte(m, cbp, csh, d0)>>),
             s, op, lc, rc0 + 1 - mref, d0 \div Pow2(csh), ipa)

\* The finishing literal block with header bytes hb.
WriteFin(m, s, op, lc, ipa, hb) ==
    [m |-> CopyIn(Put(m, op, hb), s, op + Len(hb), ipa, lc),
     op |-> op + Len(hb) + lc]

\* lzav_write_fin_2: the finishing literal block of lc literals at ipa.
lzav_write_fin_2(m, s, op, lc, ipa) ==
    WriteFin(m, s, op, lc, ipa,
             IF lc < 16 THEN <<lc>> ELSE <<0>> \o LitLenBytes(lc - 16))

(***************************************************************************)
(* Primitive layer: hashing and match lengths.                             *)
(***************************************************************************)
\* Bytes k..7 of the 64-bit product of the 32-bit values whose
\* little-endian bytes are a and b (1-based tuples of 4), given the carry
\* into byte k.
MulTerm(a, b, i, k) ==
    IF k - i >= 0 /\ k - i <= 3 THEN a[i + 1] * b[k - i + 1] ELSE 0

RECURSIVE MulBytes(_, _, _, _)
MulBytes(a, b, k, carry) ==
    IF k > 7 THEN <<>>
    ELSE LET t == MulTerm(a, b, 0, k) + MulTerm(a, b, 1, k)
                  + MulTerm(a, b, 2, k) + MulTerm(a, b, 3, k) + carry
         IN  <<t % 256>> \o MulBytes(a, b, k + 1, t \div 256)

\* The 4 bytes, little-endian, of hval = (uint32_t) hm ^ (uint32_t)
\* ( hm >> 32 ), where hm is the 64-bit product of the values with bytes a
\* and b.
HashFold(a, b) ==
    LET pr == MulBytes(a, b, 0, 0)
    IN  <<Xor8(pr[1], pr[5]), Xor8(pr[2], pr[6]), Xor8(pr[3], pr[7]),
          Xor8(pr[4], pr[8])>>

\* hval & ( htsize - 1 ) for the hval with bytes hb; htsize is a power of 2.
HashMod(hb, htsize) ==
    LET lo == hb[1] + 256 * hb[2] + 65536 * hb[3]
    IN  IF htsize <= 16777216 THEN lo % htsize
        ELSE lo + 16777216 * (hb[4] % (htsize \div 16777216))

\* Seed1 = 0x243F6A88 ^ iw1, as bytes.
Seed1(iw1) == <<Xor8(136, iw1[1]), Xor8(106, iw1[2]), Xor8(63, iw1[3]),
                Xor8(36, iw1[4])>>

\* The byte offset of the hash-table slot of lzav_compress for the 6 bytes
\* iw1, iw2: hval & hmask with hmask = ( htsize - 1 ) ^ 15.
HashSlot(iw1, iw2, htsize) ==
    LET hv == HashMod(HashFold(Seed1(iw1),
                           <<Xor8(211, iw2[1]), Xor8(8, iw2[2]), 163, 133>>),
                      htsize)
    IN  hv - (hv % 16)

\* The byte offset of the hash-table slot of lzav_compress_hi for the 4
\* bytes iw1 and the byte b4: hval & hmask with hmask = ( htsize - 1 ) ^ 63.
HashSlotHi(iw1, b4, htsize) ==
    LET hv == HashMod(HashFold(Seed1(iw1), <<Xor8(211, b4), 8, 163, 133>>),
                      htsize)
    IN  hv - (hv % 64)

\* lzav_match_len: the number of leading bytes, at most ml, on which the
\* source agrees at positions p1 and p2.
RECURSIVE MatchLenFrom(_, _, _, _, _)
MatchLenFrom(s, p1, p2, ml, k) ==
    IF k + 7 < ml /\ RdN(s, p1 + k, 8) = RdN(s, p2 + k, 8)
    THEN MatchLenFrom(s, p1, p2, ml, k + 8)
    ELSE IF k >= ml \/ Rd(s, p1 + k) # Rd(s, p2 + k) THEN k
    ELSE MatchLenFrom(s, p1, p2, ml, k + 1)

\* A match finder that reports the whole length allowed as matching.
lzav_match_len_full(s, p1, p2, ml) == ml

lzav_match_len(s, p1, p2, ml) == MatchLenFrom(s, p1, p2, ml, 0)

\* How many bytes at p1 (and at p2) lzav_match_len reads for a result k:
\* it compares 8 bytes at a time, then 4, then single bytes.
MatchLenRead(k, ml) ==
    IF k >= ml THEN ml
    ELSE LET w8 == (ml \div 8) * 8
         IN  IF k < w8 THEN (k \div 8) * 8 + 8
             ELSE IF ml - w8 > 3 /\ k < w8 + 4 THEN w8 + 4
             ELSE k + 1

\* lzav_match_len_r: the number of bytes before positions p1 and p2, at
\* most ml, on which the source agrees.
RECURSIVE MatchLenRFrom(_, _, _, _, _)
MatchLenRFrom(s, p1, p2, ml, k) ==
    IF k + 7 < ml /\ RdN(s, p1 - 8 - k, 8) = RdN(s, p2 - 8 - k, 8)
    THEN MatchLenRFrom(s, p1, p2, ml, k + 8)
    ELSE IF k >= ml \/ Rd(s, p1 - 1 - k) # Rd(s, p2 - 1 - k) THEN k
    ELSE MatchLenRFrom(s, p1, p2, ml, k + 1)

lzav_match_len_r(s, p1, p2, ml) == MatchLenRFrom(s, p1, p2, ml, 0)

\* How many bytes before p1 (and p2) lzav_match_len_r reads for a result k:
\* one byte, then 2 bytes at a time, then one byte.
MatchLenRRead(k, ml) ==
    IF ml = 0 THEN 0
    ELSE IF k = 0 THEN 1
    ELSE IF k >= ml THEN ml
    ELSE IF k = ml - 1 /\ (ml - 1) % 2 = 1 THEN ml
    ELSE 1 + ((k - 1) \div 2) * 2 + 2

(***************************************************************************)
(* lzav_compress.                                                          *)
(***************************************************************************)
\* The fresh memory of a call whose destination holds cap bytes.
MemInit(cap) ==
    [dst |-> [i \in 1..cap |-> JunkAt(i - 1)],
     rlo |-> NoPos, rhi |-> 0, wlo |-> NoPos, whi |-> 0]

\* The heap after malloc is called for the hash table ( ok: it succeeds ),
\* and after free is called on the pointer it returned.  A block is
\* "live" from its allocation to its release.
HeapMalloc(h, ok) ==
    IF h # "none" THEN "second" ELSE IF ok THEN "live" ELSE "failed"

\* A release that is left out.
HeapFree_leak(h) == h

HeapFree(h) == IF h = "live" THEN "freed" ELSE "badfree"

\* The record of a compressor call before any call is made.  nref counts
\* the lzav_write_blk_2 calls and blk holds the arguments of the last one;
\* nback counts the iterations of the main loop of lzav_compress_hi that
\* left ip where it was or before.
CompIdle ==
    [fn |-> "none", srcp |-> 0, dstp |-> 0, al |-> 0, srcl |-> 0,
     dstl |-> 0, extp |-> 0, extl |-> 0, st |-> "none", ret |-> 0, m |-> MemInit(0),
     ip |-> 0, ipa |-> 0, op |-> 0, cbp |-> 0, csh |-> 0,
     mavg |-> 0, rndb |-> 0, htsize |-> 0, ht |-> <<>>, initw |-> <<>>,
     heap |-> "none", prc |-> 0, pd |-> 0, pip |-> 0, pwp |-> 0,
     nref |-> 0, nback |-> 0,
     blk |-> [lc |-> 0, rc |-> 0, d |-> 0, ip |-> 0, wp |-> 0]]

\* while( htsize != cap && ( htsize >> 2 ) < srcl ) htsize <<= 1;
RECURSIVE HtGrow(_, _, _)
HtGrow(h, srcl, cap) ==
    IF h # cap /\ h \div 4 < srcl THEN HtGrow(2 * h, srcl, cap) ELSE h

\* The growth loop of the external-buffer branch, capped by htsizem.
RECURSIVE HtGrowExt(_, _, _)
HtGrowExt(h, srcl, htsizem) ==
    IF h \div 4 < srcl /\ 2 * h <= htsizem
    THEN HtGrowExt(2 * h, srcl, htsizem) ELSE h

\* The hash-table size lzav_compress chooses.
HtSize(srcl, extp, extl) ==
    LET h0 == IF srcl <= LZAV_SMALL_MAX THEN LZAV_MIN_HTABLE
              ELSE HtGrow(2048, srcl, 1048576)
    IN  IF extp = 0 THEN HtGrow(h0, srcl, 1048576)
        ELSE HtGrowExt(h0, srcl,
                       IF extl > StackBufSize THEN extl ELSE StackBufSize)

\* The capacity in bytes of the buffer lzav_compress puts the table in.
HtCapacity(srcl, extp, extl) ==
    IF extp = 0
    THEN (IF HtSize(srcl, extp, extl) > StackBufSize
          THEN HtSize(srcl, extp, extl) ELSE StackBufSize)
    ELSE (IF extl > StackBufSize THEN extl ELSE StackBufSize)

\* "while( n-- ) *d++ = *s++" inside the buffer b: n bytes from position
\* s to position d, one after the other.
RECURSIVE CopyBytes(_, _, _, _)
CopyBytes(b, d, s, n) ==
    IF n <= 0 THEN b
    ELSE CopyBytes([b EXCEPT ![d + 1] = b[s + 1]], d + 1, s + 1, n - 1)

\* "*dw++ = word" inside the buffer b: w words from position s to
\* position d; the bytes of a word are read, then stored.
RECURSIVE CopyWords(_, _, _, _)
CopyWords(b, d, s, w) ==
    IF w <= 0 THEN b
    ELSE CopyWords([i \in 1..Len(b) |->
                       IF i - 1 >= d /\ i - 1 < d + WordSize
                       THEN b[i - d + s] ELSE b[i]],
                   d + WordSize, s + WordSize, w - 1)

\* lzav_memcpy( b + d, b + s, n ) with both ranges in the buffer b, whose
\* address is al modulo the word size: the byte loop below two words;
\* otherwise the bytes up to the next word boundary of the destination,
\* then whole words, then the bytes left.
lzav_memcpy(b, d, s, n, al) ==
    IF n < 2 * WordSize THEN CopyBytes(b, d, s, n)
    ELSE LET head == (WordSize - ((al + d) % WordSize)) % WordSize
             n1 == n - head
             w == n1 \div WordSize
             b1 == CopyBytes(b, d, s, head)
             b2 == CopyWords(b1, d + head, s + head, w)
         IN  CopyBytes(b2, d + head + w * WordSize, s + head + w * WordSize,
                       n1 % WordSize)

\* lzav_tiny_compress with src == dst: the buffer holds the source s, and
\* behind it what m holds; the two header bytes are stored, then
\* lzav_memcpy copies inside the buffer.  al is the address of the buffer
\* modulo the word size.
TinyAlias(m, s, srcl, al) ==
    LET b0 == [i \in 1..Len(m.dst) |->
                  IF i <= Len(s) THEN s[i] ELSE m.dst[i]]
        b1 == [b0 EXCEPT ![1] = LZAV_FMT_CUR * 16 + LZAV_REF_MIN,
                         ![2] = srcl % 256]
    IN  [m EXCEPT !.dst = lzav_memcpy(b1, 2, 0, srcl, al),
                  !.rlo = Min(@, 0), !.rhi = Max(@, srcl),
                  !.wlo = Min(@, 0), !.whi = Max(@, srcl + 2)]

lzav_tiny_compress(c, s) ==
    IF c.srcl <= 0 \/ c.srcl > LZAV_TINY_MAX \/ c.dstl < c.srcl + 2
    THEN [c EXCEPT !.st = "ret", !.ret = 0]
    ELSE IF c.dstp = 0 THEN [c EXCEPT !.st = "fault"]
    ELSE LET m1 == Put(c.m, 0, <<LZAV_FMT_CUR * 16 + LZAV_REF_MIN,
                                 c.srcl % 256>>)
         IN  IF c.srcp = 0 THEN [c EXCEPT !.st = "fault", !.m = m1]
             ELSE IF c.srcp = c.dstp
             THEN [c EXCEPT !.st = "ret", !.ret = c.srcl + 2,
                            !.m = TinyAlias(c.m, s, c.srcl, c.al)]
             ELSE [c EXCEPT !.st = "ret", !.ret = c.srcl + 2,
                            !.m = CopyIn(m1, s, 2, 0, c.srcl)]

\* The entry of lzav_compress up to its main loop: the tiny-data path, the
\* argument checks, the prefix byte, the hash-table set-up.  mok tells
\* whether malloc succeeds.
CompressEnter(c, s, mok) ==
    IF c.srcl <= LZAV_TINY_MAX THEN lzav_tiny_compress(c, s)
    ELSE IF c.srcl <= 0 \/ c.srcp = 0 \/ c.dstp = 0 \/ c.srcp = c.dstp
            \/ c.dstl < lzav_compress_bound(c.srcl)
    THEN [c EXCEPT !.st = "ret", !.ret = 0]
    ELSE LET m1 == Put(c.m, 0, <<LZAV_FMT_CUR * 16 + LZAV_REF_MIN>>)
             hs == HtSize(c.srcl, c.extp, c.extl)
             heap == c.extp = 0 /\ hs > StackBufSize
             ipet == c.srcl - LZAV_LIT_FIN - 9
         IN  IF c.srcl < 16 THEN
                 LET m2 == CopyIn(Put(m1, 1, <<c.srcl>>), s, 2, 0, c.srcl)
                 IN  IF c.srcl > LZAV_LIT_FIN - 1
                     THEN [c EXCEPT !.st = "ret", !.ret = 2 + c.srcl, !.m = m2]
                     ELSE [c EXCEPT !.st = "ret", !.ret = 2 + LZAV_LIT_FIN,
                              !.m = Put(m2, 2 + c.srcl,
                                 [i \in 1..(LZAV_LIT_FIN - c.srcl) |-> 0])]
             ELSE IF heap /\ ~mok
             THEN [c EXCEPT !.st = "ret", !.ret = 0, !.m = m1,
                            !.heap = HeapMalloc(c.heap, FALSE)]
             ELSE [c EXCEPT
                     !.st = "run", !.op = 1, !.cbp = 1, !.csh = 0,
                     !.ip = 16, !.ipa = 0, !.mavg = 100 * 2097152,
                     !.rndb = 0, !.htsize = hs, !.ht = <<>>,
                     !.heap = IF heap THEN HeapMalloc(c.heap, TRUE)
                              ELSE c.heap,
                     !.initw = IF 16 < ipet THEN RdN(s, 16, 4)
                               ELSE <<0, 0, 0, 0>>,
                     !.m = IF 16 < ipet THEN NoteRd(m1, 16, 4) ELSE m1]

\* The entry of lzav_compress called with an external buffer.  A table
\* larger than the buffer it is put in makes the set-up loop store beyond
\* that buffer: the call faults ( ovf ) or goes on.
CompressEnterExt(c, s, ovf) ==
    LET e == CompressEnter(c, s, TRUE)
    IN  IF e.st = "run" /\ ovf
           /\ e.htsize > HtCapacity(c.srcl, c.extp, c.extl)
        THEN [e EXCEPT !.st = "fault"]
        ELSE e

\* The hash-table slot at byte offset h: its stored words, or the seeding
\* values ( initv[ 0 ], initv[ 1 ] = 16 ) of the set-up loop.
SlotAt(c, h) ==
    IF h \in DOMAIN c.ht THEN c.ht[h]
    ELSE <<c.initw, 16, c.initw, 16>>

SetSlot(c, h, v) == [x \in (DOMAIN c.ht) \cup {h} |->
                        IF x = h THEN v ELSE c.ht[x]]

\* The tuple comparison of the probe: iw1, iw2 are the bytes at ip, h the
\* slot offset and hp its tuples, m1 the memory after ip was read.
ProbeTuples(s, h, hp, iw1, iw2, m1) ==
    IF iw1 # hp[1] THEN
        IF iw1 # hp[3]
        THEN [found |-> FALSE, wp |-> 0, h |-> h, hp |-> hp, iw1 |-> iw1,
              m |-> m1]
        ELSE [found |-> RdN(s, hp[4] + 4, 2) = iw2, wp |-> hp[4], h |-> h,
              hp |-> hp, iw1 |-> iw1, m |-> NoteRd(m1, hp[4] + 4, 2)]
    ELSE IF RdN(s, hp[2] + 4, 2) = iw2
        THEN [found |-> TRUE, wp |-> hp[2], h |-> h, hp |-> hp,
              iw1 |-> iw1, m |-> NoteRd(m1, hp[2] + 4, 2)]
    ELSE IF iw1 # hp[3]
        THEN [found |-> FALSE, wp |-> 0, h |-> h, hp |-> hp, iw1 |-> iw1,
              m |-> NoteRd(m1, hp[2] + 4, 2)]
    ELSE [found |-> RdN(s, hp[4] + 4, 2) = iw2, wp |-> hp[4], h |-> h,
          hp |-> hp, iw1 |-> iw1,
          m |-> NoteRd(NoteRd(m1, hp[2] + 4, 2), hp[4] + 4, 2)]

\* The slot of the probe, from the hash of the 6 bytes at ip.
ProbeSlot(c, s, h, iw1, iw2) ==
    ProbeTuples(s, h, SlotAt(c, h), iw1, iw2, NoteRd(c.m, c.ip, 6))

\* The hash-table probe of one iteration of lzav_compress at c.ip: the slot,
\* the window position wp of the tuple that matches the 6 bytes at ip
\* (found = FALSE when none does), and the source bytes read.
CompressProbe(c, s) ==
    ProbeSlot(c, s, HashSlot(RdN(s, c.ip, 4), RdN(s, c.ip + 4, 2), c.htsize),
              RdN(s, c.ip, 4), RdN(s, c.ip + 4, 2))

\* The _no_match branch: the slot's second tuple is replaced, the match
\* average decays, and ip advances (faster below the speed-up thresholds).
CompressNoMatch(c, pb) ==
    LET mavg == c.mavg - (c.mavg \div 2048)
        fast == mavg < 200 * 16384 /\ c.ip # c.ipa
        skip == IF ~fast THEN 0
                ELSE 1 + c.rndb
                     + (IF mavg < 130 * 16384 THEN 1 ELSE 0)
                     + (IF mavg < 100 * 16384
                        THEN 100 - (mavg \div 16384) ELSE 0)
    IN  [c EXCEPT
            !.ht = SetSlot(c, pb.h, <<pb.hp[1], pb.hp[2], pb.iw1, c.ip>>),
            !.mavg = mavg,
            !.rndb = IF fast THEN c.ip % 2 ELSE c.rndb,
            !.ip = c.ip + skip + 1,
            !.m = pb.m]

\* A branch that leaves ip where it is.
CompressDOob_stay(c, pb, d) == [c EXCEPT !.m = pb.m]

\* The _d_oob branch: the offset is too small or too large to use.
CompressDOob(c, pb, d) ==
    [c EXCEPT
        !.ip = c.ip + 1,
        !.ht = IF d < LZAV_WIN_LEN THEN c.ht
               ELSE IF pb.iw1 # pb.hp[1]
               THEN SetSlot(c, pb.h, <<pb.hp[1], pb.hp[2], pb.hp[3], c.ip>>)
               ELSE SetSlot(c, pb.h, <<pb.hp[1], c.ip, pb.hp[3], pb.hp[4]>>),
        !.m = pb.m]

\* The slot after a match at a distance above 273: the matching first
\* tuple's offset is replaced, or the new tuple is inserted in front.
CompressUpdSlot(c, pb, d) ==
    IF d > 273 THEN
        IF pb.iw1 = pb.hp[1]
        THEN SetSlot(c, pb.h, <<pb.hp[1], c.ip, pb.hp[3], pb.hp[4]>>)
        ELSE SetSlot(c, pb.h, <<pb.iw1, c.ip, pb.hp[1], pb.hp[2]>>)
    ELSE c.ht

\* A back-match limit that leaves the room left in ml out: min( lc, 16 ).
CompressBackLimit_lc(ml, rc, lc) == IF lc > 16 THEN 16 ELSE lc

\* The back-match limit of lzav_compress: min( ml - rc, lc, 16 ).
CompressBackLimit(ml, rc, lc) ==
    LET bmc == IF lc > 16 THEN 16 ELSE lc
    IN  IF ml - rc > bmc THEN bmc ELSE ml - rc

\* The state after the block pair w of a match was written.
MatchDone(c, pb, d, w, lc, rc, ip, bmc) ==
    [c EXCEPT
        !.ht = CompressUpdSlot(c, pb, d),
        !.m = w.m, !.op = w.op, !.cbp = w.cbp, !.csh = w.csh,
        !.ip = ip + rc, !.ipa = ip + rc,
        !.mavg = c.mavg + ((rc * 2097152 - c.mavg) \div 1024),
        !.nref = c.nref + 1,
        !.blk = [lc |-> lc, rc |-> rc, d |-> d, ip |-> ip,
                 wp |-> pb.wp - bmc]]

\* The block pair of a match of rc bytes at ip with lc literals before it.
MatchEmit(c, s, pb, d, m2, lc, rc, ip, bmc) ==
    MatchDone(c, pb, d,
              lzav_write_blk_2(m2, s, c.op, lc, rc, d, c.ipa, c.cbp, c.csh,
                               LZAV_REF_MIN),
              lc, rc, ip, bmc)

\* The backward extension by bmc bytes (br bytes compared) of a match.
MatchBack(c, s, pb, d, m1, rc0, bmc, br) ==
    MatchEmit(c, s, pb, d, NoteRd(NoteRd(m1, c.ip - br, br), pb.wp - br, br),
              c.ip - c.ipa - bmc, rc0 + bmc, c.ip - bmc, bmc)

\* The back-match of a match that extends forward by fw bytes, limit bl.
MatchBackLen(c, s, pb, d, m1, rc0, bl) ==
    IF c.ip # c.ipa
    THEN MatchBack(c, s, pb, d, m1, rc0, lzav_match_len_r(s, c.ip, pb.wp, bl),
                   MatchLenRRead(lzav_match_len_r(s, c.ip, pb.wp, bl), bl))
    ELSE MatchBack(c, s, pb, d, m1, rc0, 0, 0)

\* The match after its forward extension: fw bytes beyond the first 6
\* match, of at most ml - 6 compared.
MatchFwd(c, s, pb, d, ml, fw) ==
    MatchBackLen(c, s, pb, d,
                 NoteRd(NoteRd(pb.m, c.ip + LZAV_REF_MIN,
                               MatchLenRead(fw, ml - LZAV_REF_MIN)),
                        pb.wp + LZAV_REF_MIN,
                        MatchLenRead(fw, ml - LZAV_REF_MIN)),
                 LZAV_REF_MIN + fw,
                 CompressBackLimit(ml, LZAV_REF_MIN + fw, c.ip - c.ipa))

\* The match of at most ml bytes.
MatchWithin(c, s, pb, d, ml) ==
    MatchFwd(c, s, pb, d, ml,
             lzav_match_len(s, c.ip + LZAV_REF_MIN, pb.wp + LZAV_REF_MIN,
                            ml - LZAV_REF_MIN))

\* The match branch: forward and backward extension, the block pair, the
\* match average.
CompressMatch(c, s, pb, d) ==
    LET ml0 == IF d > LZAV_REF_LEN THEN LZAV_REF_LEN ELSE d
        ipe == c.srcl - LZAV_LIT_FIN
    IN  MatchWithin(c, s, pb, d,
                    IF c.ip + ml0 > ipe THEN ipe - c.ip ELSE ml0)

\* A branch that takes the match whatever its distance.
CompressBranch_anyd(c, s, pb) ==
    IF ~pb.found THEN CompressNoMatch(c, pb)
    ELSE CompressMatch(c, s, pb, c.ip - pb.wp)

\* The branch an iteration takes on the probe result pb.
CompressBranch(c, s, pb) ==
    IF ~pb.found THEN CompressNoMatch(c, pb)
    ELSE IF c.ip - pb.wp < 8 \/ c.ip - pb.wp > LZAV_WIN_LEN - 1
    THEN CompressDOob(c, pb, c.ip - pb.wp)
    ELSE CompressMatch(c, s, pb, c.ip - pb.wp)

\* One iteration of the main loop of lzav_compress ( ip < ipet ).
CompressStep(c, s) == CompressBranch(c, s, CompressProbe(c, s))

\* The return of lzav_compress after the finishing block w.
CompressRet(c, w) ==
    [c EXCEPT !.st = "ret", !.ret = w.op, !.m = w.m, !.op = w.op,
              !.heap = IF c.heap # "none" THEN HeapFree(c.heap)
                       ELSE c.heap]

\* The end of lzav_compress: the table is freed, the finishing literals
\* are written, the compressed length is returned.  A call whose table
\* was larger than the buffer it lies in has stored table words behind
\* stack_buf or ext_buf; what those stores hit is undefined, and the
\* return either takes place or the process is stopped at it ( kill ).
CompressFinish(c, s, kill) ==
    LET Fin(w) ==
            IF kill /\ c.htsize > HtCapacity(c.srcl, c.extp, c.extl)
            THEN [c EXCEPT !.st = "fault", !.m = w.m, !.op = w.op]
            ELSE CompressRet(c, w)
    IN  Fin(lzav_write_fin_2(c.m, s, c.op,
                             c.srcl - LZAV_LIT_FIN - c.ipa + LZAV_LIT_FIN,
                             c.ipa))

(***************************************************************************)
(* lzav_compress_hi.                                                       *)
(***************************************************************************)
\* mlen: the longest reference of lzav_compress_hi.
HiMlen == LZAV_REF_LEN - LZAV_REF_MIN + HI_MREF

\* The hash-table size lzav_compress_hi chooses.
HtSizeHi(srcl) == HtGrow(8192, srcl, 8388608)

\* The entry of lzav_compress_hi up to its main loop.
CompressHiEnter(c, s, mok) ==
    IF c.srcl <= 0 \/ c.srcp = 0 \/ c.dstp = 0 \/ c.srcp = c.dstp
       \/ c.dstl < lzav_compress_bound_hi(c.srcl)
    THEN [c EXCEPT !.st = "ret", !.ret = 0]
    ELSE LET m1 == Put(c.m, 0, <<LZAV_FMT_CUR * 16 + HI_MREF>>)
         IN  IF c.srcl < 16 THEN
                 LET m2 == CopyIn(Put(m1, 1, <<c.srcl>>), s, 2, 0, c.srcl)
                 IN  IF c.srcl > LZAV_LIT_FIN - 1
                     THEN [c EXCEPT !.st = "ret", !.ret = 2 + c.srcl, !.m = m2]
                     ELSE [c EXCEPT !.st = "ret", !.ret = 2 + LZAV_LIT_FIN,
                              !.m = Put(m2, 2 + c.srcl,
                                 [i \in 1..(LZAV_LIT_FIN - c.srcl) |-> 0])]
             ELSE IF ~mok
             THEN [c EXCEPT !.st = "ret", !.ret = 0, !.m = m1,
                            !.heap = HeapMalloc(c.heap, FALSE)]
             ELSE [c EXCEPT
                     !.st = "run", !.op = 1, !.cbp = 1, !.csh = 0,
                     !.ip = 0, !.ipa = 0, !.htsize = HtSizeHi(c.srcl),
                     !.ht = <<>>, !.heap = HeapMalloc(c.heap, TRUE),
                     !.initw = RdN(s, 0, 4), !.m = NoteRd(m1, 0, 4),
                     !.prc = 0, !.pd = 0, !.pip = 0]

\* The 16 words of the slot at byte offset h: 7 tuples ( word, offset ), a
\* spare word, and the head tuple offset in the last word.  Every word pair
\* is seeded with ( initv[ 0 ], 0 ).
SlotAtHi(c, h) ==
    IF h \in DOMAIN c.ht THEN c.ht[h]
    ELSE [i \in 1..16 |-> IF i % 2 = 1 THEN c.initw ELSE 0]

\* The tuple scan of lzav_compress_hi: n tuples left to examine, ti the
\* next tuple's index, b the best candidate so far with the distance d of
\* the tuple examined last.  d = ip - wp0 is a size_t: for a tuple that
\* lies ahead of ip ( ip has stepped back since the tuple was stored ) it
\* wraps to 2^64 - ( wp0 - ip ), which is Huge here.  A maximal length
\* below 4 leaves the length d ( ml - 4 wraps and lzav_match_len returns it
\* unread ).
RECURSIVE HiScan(_, _, _, _, _, _, _)
HiScan(c, s, hp, iw1, ti, n, b) ==
    IF n = 0 THEN b
    ELSE LET ww1 == hp[ti + 1]
             wp0 == hp[ti + 2]
             d == IF wp0 > c.ip THEN Huge ELSE c.ip - wp0
             ipe == c.srcl - LZAV_LIT_FIN
             ml0 == IF d > HiMlen THEN HiMlen ELSE d
             ml == IF c.ip + HiMlen < ipe THEN ml0
                   ELSE IF c.ip + ml0 > ipe THEN ipe - c.ip ELSE ml0
             fw == IF ml < 4 THEN ml - 4
                   ELSE lzav_match_len(s, c.ip + 4, wp0 + 4, ml - 4)
             fr == IF ml < 4 THEN 0 ELSE MatchLenRead(fw, ml - 4)
             rc0 == 4 + fw
             nti == IF ti = 12 THEN 0 ELSE ti + 2
         IN  IF iw1 = ww1 THEN
                 LET m1 == NoteRd(NoteRd(b.m, c.ip + 4, fr), wp0 + 4, fr)
                 IN  IF rc0 > b.rc + B2N(d > 262144)
                     THEN HiScan(c, s, hp, iw1, nti, n - 1,
                                 [wp |-> wp0, rc |-> rc0, d |-> d, m |-> m1])
                     ELSE HiScan(c, s, hp, iw1, nti, n - 1,
                                 [b EXCEPT !.d = d, !.m = m1])
             ELSE HiScan(c, s, hp, iw1, nti, n - 1, [b EXCEPT !.d = d])

\* The slot after the insertion of ( iw1, ipo ) in front of the head tuple.
HiInsert(hp, iw1, ipo) ==
    LET ti0 == IF hp[16] = 0 THEN 12 ELSE hp[16] - 2
    IN  [i \in 1..16 |-> IF i = ti0 + 1 THEN iw1
                          ELSE IF i = ti0 + 2 THEN ipo
                          ELSE IF i = 16 THEN ti0 ELSE hp[i]]

\* The block size overhead estimate of lzav_compress_hi.
HiOverhead(lc, d, csh) ==
    LET lb == B2N(lc # 0)
        sh == 10 + B2N(csh # 0) * 3 + lb * 2
    IN  lc + lb + B2N(lc > 15) + 2 + B2N(d >= Pow2(sh))
        + B2N(d >= Pow2(sh + 8))

\* A back-match limit that is not capped by the window position.
HiBackLimit_nowp(c, d, rc, lc, wpo) ==
    LET ipe == c.srcl - LZAV_LIT_FIN
        ml0 == IF d > HiMlen THEN HiMlen ELSE d
        ml1 == IF c.ip + ml0 > ipe THEN ipe - c.ip ELSE ml0
    IN  IF ml1 - rc < 0 \/ ml1 - rc > lc THEN lc ELSE ml1 - rc

\* The back-match limit of lzav_compress_hi: ml - rc ( wrapping to a huge
\* value when rc exceeds ml ), capped by lc and by wpo.
HiBackLimit(c, d, rc, lc, wpo) ==
    LET ipe == c.srcl - LZAV_LIT_FIN
        ml0 == IF d > HiMlen THEN HiMlen ELSE d
        ml1 == IF c.ip + ml0 > ipe THEN ipe - c.ip ELSE ml0
        ml2 == IF ml1 - rc < 0 \/ ml1 - rc > lc THEN lc ELSE ml1 - rc
    IN  IF ml2 > wpo THEN wpo ELSE ml2

\* c after the block pair w was written.
HiEmitted(c, w, lc, rc, d, ip, wp) ==
    [c EXCEPT !.m = w.m, !.op = w.op, !.cbp = w.cbp, !.csh = w.csh,
              !.nref = c.nref + 1,
              !.blk = [lc |-> lc, rc |-> rc, d |-> d, ip |-> ip, wp |-> wp]]

\* c after lzav_write_blk_2 emits the block pair ( lc, rc, d ) whose
\* reference starts at source position ip.
HiEmit(c, s, lc, rc, d, ip, wp) ==
    HiEmitted(c, lzav_write_blk_2(c.m, s, c.op, lc, rc, d, c.ipa, c.cbp,
                                  c.csh, HI_MREF),
              lc, rc, d, ip, wp)

\* The comparison of the match ( lc, rc, d ) at ip with the match saved
\* before, and the block written; c.ip is still the position probed.
HiChoose(c, s, lc, rc, d, ip, wp) ==
    LET plc == c.pip - c.ipa
        prev == c.prc * HiOverhead(lc, d, c.csh)
                > rc * HiOverhead(plc, c.pd, c.csh)
    IN  IF c.prc = 0
        THEN [c EXCEPT !.prc = rc, !.pd = d, !.pip = ip, !.pwp = wp,
                       !.ip = c.ip + 1]
        ELSE IF prev /\ c.pip + c.prc <= ip
        THEN [HiEmit(c, s, plc, c.prc, c.pd, c.pip, c.pwp) EXCEPT
                 !.ipa = c.pip + c.prc, !.prc = rc, !.pd = d, !.pip = ip,
                 !.pwp = wp, !.ip = ip + 1]
        ELSE IF prev
        THEN [HiEmit(c, s, plc, c.prc, c.pd, c.pip, c.pwp) EXCEPT
                 !.ip = c.pip + c.prc, !.ipa = c.pip + c.prc, !.prc = 0]
        ELSE [HiEmit(c, s, lc, rc, d, ip, wp) EXCEPT
                 !.ip = ip + rc, !.ipa = ip + rc, !.prc = 0]

\* The back-match of lzav_compress_hi for the match ( rc0, d ) at c.ip
\* against window position wp0.
HiBack(c, s, wp0, rc0, d) ==
    LET lc0 == c.ip - c.ipa
        bl == HiBackLimit(c, d, rc0, lc0, wp0)
        bmc == IF lc0 # 0 THEN lzav_match_len_r(s, c.ip, wp0, bl) ELSE 0
        br == IF lc0 # 0 THEN MatchLenRRead(bmc, bl) ELSE 0
    IN  HiChoose([c EXCEPT !.m = NoteRd(NoteRd(@, c.ip - br, br),
                                        wp0 - br, br)],
                 s, lc0 - bmc, rc0 + bmc, d, c.ip - bmc, wp0 - bmc)

\* The iteration after the tuple scan returned sc: the tuple insertion,
\* the test of the match.
HiAfterScan(c, s, iw1, h, hp, sc) ==
    LET c1 == [c EXCEPT !.m = sc.m,
                        !.ht = IF sc.rc = 0 \/ sc.d > 273
                               THEN SetSlot(c, h, HiInsert(hp, iw1, c.ip))
                               ELSE @]
    IN  IF sc.rc < HI_MREF + B2N(sc.d > 262144) \/ sc.d < 8
           \/ sc.d > LZAV_WIN_LEN - 1
        THEN [c1 EXCEPT !.ip = c.ip + 1]
        ELSE HiBack(c1, s, sc.wp, sc.rc, sc.d)

\* The iteration once the slot hp at byte offset h is known.
HiProbe(c, s, iw1, h, hp) ==
    HiAfterScan(c, s, iw1, h, hp,
                HiScan(c, s, hp, iw1, hp[16], 7,
                       [wp |-> c.ip, rc |-> 0, d |-> 0,
                        m |-> NoteRd(c.m, c.ip, 5)]))

\* The probe of the slot at offset h for the bytes iw1 at ip.
HiSlot(c, s, iw1, h) == HiProbe(c, s, iw1, h, SlotAtHi(c, h))

\* The iteration that took c to n, counted in nback when ip did not
\* advance.
HiCounted(c, n) ==
    IF n.ip <= c.ip THEN [n EXCEPT !.nback = c.nback + 1] ELSE n

\* One iteration of the main loop of lzav_compress_hi ( ip < ipet ).
CompressHiStep(c, s) ==
    HiCounted(c, HiSlot(c, s, RdN(s, c.ip, 4),
                        HashSlotHi(RdN(s, c.ip, 4), Rd(s, c.ip + 4),
                                   c.htsize)))

\* The return of lzav_compress_hi after the finishing block w.
HiRetWith(c, w) ==
    [c EXCEPT !.st = "ret", !.ret = w.op, !.m = w.m, !.op = w.op,
              !.heap = HeapFree(c.heap)]

\* The finishing literals of lzav_compress_hi from c.ipa on.
HiRet(c, s) ==
    HiRetWith(c, lzav_write_fin_2(c.m, s, c.op,
                                  c.srcl - LZAV_LIT_FIN - c.ipa + LZAV_LIT_FIN,
                                  c.ipa))

\* The end of lzav_compress_hi: a pending match is emitted, the table is
\* freed, the finishing literals are written.
CompressHiFinish(c, s) ==
    IF c.prc # 0
    THEN HiRet([HiEmit(c, s, c.pip - c.ipa, c.prc, c.pd, c.pip, c.pwp)
                EXCEPT !.ipa = c.pip + c.prc], s)
    ELSE HiRet(c, s)

(***************************************************************************)
(* Decompression.  The record x of a decoder call holds the arguments      *)
(* ( src is the buffer behind the source pointer, srcl and dstl the        *)
(* lengths passed ), the locals of the stream decoder, the destination m   *)
(* and the lowest destination position a reference copy has read ( cplo ). *)
(* last is the type of the block processed last ( "lit", "ref" ), rp and   *)
(* rcc the output position and the length of the reference block processed *)
(* last, d its distance.  blks lists the reference blocks copied so far,   *)
(* each with the literals stored since the reference before it:            *)
(* << literals, length, distance >>.                                       *)
(***************************************************************************)
\* A size_t of 64 bits is the set of the positions of its 1 bits.
\* Bits64( v ) is the word of v < 2^30: bit 0 of v, and the bits of v >> 1
\* one position up.
RECURSIVE Bits64(_)
Bits64(v) ==
    IF v = 0 THEN {}
    ELSE (IF v % 2 = 1 THEN {0} ELSE {}) \cup {b + 1 : b \in Bits64(v \div 2)}

\* The value of the word w, Huge for 2^30 and above.
RECURSIVE Val64(_)
Val64(w) ==
    IF w = {} THEN 0
    ELSE IF ~(w \subseteq 0..29) THEN Huge
    ELSE LET b == CHOOSE c \in w : TRUE
         IN  Pow2(b) + Val64(w \ {b})

\* What the build makes of the two undefined operations of the block
\* decoder.  shl: a shift of a size_t by 64 or more takes the count modulo
\* 64, as the shift instructions of x86-64 and AArch64 do ( "mod" ), or
\* shifts every bit out ( "zero" ).  cmp: the pointer dst + d, for a d that
\* leads beyond the address space, wraps around and compares below op
\* ( "wrap" ), or the comparison is made on the offsets, d > op - dst
\* ( "flat" ).
Builds == [shl : {"mod", "zero"}, cmp : {"wrap", "flat"}]

\* w << n on a size_t: the bits shifted beyond bit 63 are lost; a count of
\* 64 or more is undefined and does what the build u does.
Shl64(w, n, u) ==
    IF n < 64 THEN {b + n : b \in w} \cap (0..63)
    ELSE IF u.shl = "mod" THEN {b + (n % 64) : b \in w} \cap (0..63)
    ELSE {}

DecIdle ==
    [api |-> "decompress", fn |-> "none", src |-> <<>>, srcp |-> 0, dstp |-> 0, srcl |-> 0,
     dstl |-> 0, st |-> "none", ret |-> 0, m |-> MemInit(0), ip |-> 0,
     op |-> 0, bh |-> 0, cv |-> {}, csh |-> 0, mref1 |-> 0, pwl |-> 0,
     cplo |-> NoPos, cphi |-> 0, nref |-> 0, nlit |-> 0, d |-> 0,
     last |-> "none", rp |-> 0, rcc |-> 0, blks |-> <<>>]

\* The little-endian value of the n bytes of s at position p ( n <= 3 ).
LoadLE(s, p, n) ==
    IF n = 0 THEN 0
    ELSE IF n = 1 THEN Rd(s, p)
    ELSE IF n = 2 THEN Rd(s, p) + 256 * Rd(s, p + 1)
    ELSE Rd(s, p) + 256 * Rd(s, p + 1) + 65536 * Rd(s, p + 2)

\* The byte loop "while( cc != 0 ) { *op = *ipd; ... }" from the source:
\* cc bytes of s from position ipd to destination position op.
DLitCopy(x, op, ipd, cc) ==
    [x EXCEPT !.m = CopyIn(x.m, x.src, op, ipd, cc), !.op = op + cc,
              !.nlit = x.nlit + 1, !.last = "lit"]

\* The same loop inside the destination: byte i is copied after byte
\* i - 1 was stored, so that an overlapping copy repeats the pattern.
\* Written in closed form: byte i of the copy is the byte that was at
\* ipd + ( i mod ( op - ipd ) ) before the loop; with ipd at op or behind
\* it no byte is read after it was stored.
DRefBytes(m, op, ipd, cc) ==
    IF cc <= 0 THEN m
    ELSE IF op <= ipd THEN Put(m, op, [i \in 1..cc |-> DstAt(m, ipd + i - 1)])
    ELSE Put(m, op, [i \in 1..cc |-> DstAt(m, ipd + ((i - 1) % (op - ipd)))])

\* LZAV_MEMMOVE and lzav_memmove: n destination bytes at ipd are read,
\* then stored at op.
DMove(m, op, ipd, n) ==
    IF n <= 0 THEN m ELSE Put(m, op, [i \in 1..n |-> DstAt(m, ipd + i - 1)])

\* x returning r from the stream decoder.
DRet(x, r) == [x EXCEPT !.st = "ret", !.ret = r]

\* The header of the literal block at ip of lzav_decompress_2, bh being
\* the byte at ip: the literal count cc, the position ipd of the literals,
\* the position ip of the next block, the number nb of additional length
\* bytes, and the offset carry after the block: cv |= ( bh >> 6 ) << csh.
\* The count is at most 2^35 + 15; Huge stands for one of 2^30 and above.
D2LitHdr(src, ip, bh, cv, csh, u) ==
    LET ncv == Shl64(Bits64(bh \div 64), csh, u)
        cc0 == bh % 16
        ip1 == ip + 1
        \* additional length bytes
        b1 == Rd(src, ip1)
        b2 == Rd(src, ip1 + 1)
        b3 == Rd(src, ip1 + 2)
        b4 == Rd(src, ip1 + 3)
        b5 == Rd(src, ip1 + 4)
        nb == IF b1 < 128 THEN 1 ELSE IF b2 < 128 THEN 2
              ELSE IF b3 < 128 THEN 3 ELSE IF b4 < 128 THEN 4 ELSE 5
        ccv == Val64(Bits64(b1 % 128)
                 \cup (IF nb > 1 THEN Shl64(Bits64(b2 % 128), 7, u) ELSE {})
                 \cup (IF nb > 2 THEN Shl64(Bits64(b3 % 128), 14, u) ELSE {})
                 \cup (IF nb > 3 THEN Shl64(Bits64(b4 % 128), 21, u) ELSE {})
                 \cup (IF nb > 4 THEN Shl64(Bits64(b5 % 128), 28, u) ELSE {}))
        cc1 == IF cc0 # 0 THEN cc0 ELSE Min(Huge, ccv + 16)
        ipd == IF cc0 # 0 THEN ip1 ELSE ip1 + nb
    IN  [cc0 |-> cc0, nb |-> nb, cc |-> cc1, ipd |-> ipd, ip |-> ipd + cc1,
         cv |-> cv \cup ncv, csh |-> csh + 2]

\* The literal block at x.ip of lzav_decompress_2.  The result is in state
\* "ref" where the code jumps to _refblk.
D2Lit(x, u) ==
    LET Blk(h) ==
        LET ipe == x.srcl
            ope == x.dstl
            opet == ope - 63
            cc0 == h.cc0
            nb == h.nb
            cc1 == h.cc
            ipd == h.ipd
            ip2 == h.ip
            m0 == IF cc0 # 0 THEN NoteRd(x.m, x.ip, 1)
                  ELSE NoteRd(x.m, x.ip, 1 + nb)
            x0 == [x EXCEPT !.cv = h.cv, !.csh = h.csh, !.ip = ip2]
            fast1 == cc0 # 0 /\ x.op < opet /\ ipd < ipe - 15 - 7
            fast2 == cc0 = 0 /\ x.op < opet /\ ipd < ipe - 63 - 16
            \* after the 64-byte copy of the second fast path
            ipdT == IF fast2 THEN ipd + 64 ELSE ipd
            opT == IF fast2 THEN x.op + 64 ELSE x.op
            ccT == IF fast2 THEN cc1 - 64 ELSE cc1
            mT == IF fast2 THEN CopyIn(m0, x.src, x.op, ipd, 64) ELSE m0
            ccE == ipe - ipdT
        IN  IF fast1 THEN
                [x0 EXCEPT !.bh = Rd(x.src, ip2), !.st = "ref",
                           !.m = NoteRd(CopyIn(m0, x.src, x.op, ipd, 16), ip2, 1),
                           !.op = x.op + cc1, !.nlit = x.nlit + 1,
                           !.last = "lit"]
            ELSE IF fast2 /\ cc1 < 65 THEN
                [x0 EXCEPT !.bh = Rd(x.src, ip2), !.st = "ref",
                           !.m = NoteRd(mT, ip2, 1),
                           !.op = x.op + cc1, !.nlit = x.nlit + 1,
                           !.last = "lit"]
            ELSE IF ip2 > ipe THEN
                \* _err_srcoob_lit
                IF opT + ccE < ope
                THEN DRet([x0 EXCEPT !.m = CopyIn(mT, x.src, opT, ipdT, ccE),
                                     !.pwl = opT + ccE, !.op = opT],
                          LZAV_E_SRCOOB)
                ELSE DRet([x0 EXCEPT !.m = CopyIn(mT, x.src, opT, ipdT, ope - opT),
                                     !.op = opT],
                          LZAV_E_SRCOOB)
            ELSE LET x1 == IF ip2 < ipe
                           THEN [x0 EXCEPT !.bh = Rd(x.src, ip2),
                                           !.m = NoteRd(mT, ip2, 1)]
                           ELSE [x0 EXCEPT !.m = mT]
                 IN  IF opT + ccT > ope
                     THEN \* _err_dstoob_lit
                          DRet([x1 EXCEPT !.m = CopyIn(x1.m, x.src, opT, ipdT,
                                                       ope - opT), !.op = opT],
                               LZAV_E_DSTOOB)
                     ELSE DLitCopy(x1, opT, ipdT, ccT)
    IN  Blk(D2LitHdr(x.src, x.ip, x.bh, x.cv, x.csh, u))

\* The tail of a reference block of both stream decoders: cc bytes are
\* copied from ipd to x.op; wide tells the 64-byte fast copy from the
\* 20-byte one.  The destination bytes read lie in [ cplo, cphi ); a
\* block that reads none leaves the two as they are.
DRefCopy(x, ipd, cc, wide) ==
    LET ope == x.dstl
        opet == ope - 63
        \* how many bytes from ipd on are read
        nrd == IF x.op < opet
               THEN IF ~wide THEN 20
                    ELSE IF x.op + cc > ope /\ x.fn # "d2" THEN 64
                    ELSE IF x.op + cc > ope THEN Max(64, ope - x.op)
                    ELSE Max(64, cc)
               ELSE IF x.op + cc > ope
               THEN (IF x.fn = "d2" THEN Max(0, ope - x.op) ELSE 0)
               ELSE cc
        x1 == [x EXCEPT !.cplo = IF nrd > 0 THEN Min(@, ipd) ELSE @,
                        !.cphi = IF nrd > 0 THEN Max(@, ipd + nrd) ELSE @,
                        !.nref = x.nref + 1,
                        !.last = "ref", !.rp = x.op, !.rcc = cc,
                        !.blks = Append(@, <<x.op - (x.rp + x.rcc), cc, x.d>>)]
        m20 == DMove(DMove(x.m, x.op, ipd, 16), x.op + 16, ipd + 16, 4)
        m64 == DMove(DMove(DMove(DMove(x.m, x.op, ipd, 16),
                   x.op + 16, ipd + 16, 16), x.op + 32, ipd + 32, 16),
                   x.op + 48, ipd + 48, 16)
        fast == x.op < opet
        ipdT == IF fast /\ wide THEN ipd + 64 ELSE ipd
        opT == IF fast /\ wide THEN x.op + 64 ELSE x.op
        ccT == IF fast /\ wide THEN cc - 64 ELSE cc
        mT == IF fast /\ wide THEN m64 ELSE x.m
    IN  IF fast /\ ~wide THEN [x1 EXCEPT !.m = m20, !.op = x.op + cc]
        ELSE IF fast /\ cc < 65 THEN [x1 EXCEPT !.m = m64, !.op = x.op + cc]
        ELSE IF opT + ccT > ope
        THEN \* _err_dstoob_ref ( format 2 ), _err_dstoob ( format 1 )
             DRet([x1 EXCEPT !.m = IF x.fn = "d2"
                                   THEN DMove(mT, opT, ipdT, ope - opT)
                                   ELSE mT,
                             !.op = opT], LZAV_E_DSTOOB)
        ELSE [x1 EXCEPT !.m = DRefBytes(mT, opT, ipdT, ccT),
                        !.op = opT + ccT]

\* The header of the reference block at ip of lzav_decompress_2 ( label
\* _refblk ), bh being the byte at ip: the distance d, the length cc, the
\* position ip2 of the byte after the offset bytes, the position ip of the
\* next block, the number nl of additional length bytes, and the offset
\* carry after the block.
\* A reader that drops the carry: the distance is the bits of the header.
D2RefHdr_nocarry(src, ip, bh, cv, csh, mref1, u) ==
    LET bt == (bh \div 16) % 4
        o == LoadLE(src, ip + 1, bt)
        ip2 == ip + 1 + bt
        bvl == Rd(src, ip2)
        cc0 == bh % 16
        nl == IF cc0 # 0 THEN 0 ELSE IF bvl = 255 THEN 2 ELSE 1
    IN  [dw |-> Bits64(bh \div 64 + (o % 2097152) * 4),
         d |-> bh \div 64 + (o % 2097152) * 4,
         cc |-> IF cc0 # 0 THEN cc0 + mref1
                ELSE IF bvl = 255
                THEN 16 + mref1 + 255 + Rd(src, ip2 + 1)
                ELSE 16 + mref1 + bvl,
         ip2 |-> ip2, nl |-> nl, ip |-> ip2 + nl,
         cv |-> {}, csh |-> 0]

\* The header with the carry: the bits of the header are shifted by csh
\* over the carried bits cv, d = x << csh | cv ( LZAV_SET_IPD_CV ).  dw is
\* the distance as a word of 64 bits, d its value.
D2RefHdr(src, ip, bh, cv, csh, mref1, u) ==
    LET bt == (bh \div 16) % 4
        o == LoadLE(src, ip + 1, bt)
        ip2 == ip + 1 + bt
        bvl == Rd(src, ip2)
        cc0 == bh % 16
        nl == IF cc0 # 0 THEN 0 ELSE IF bvl = 255 THEN 2 ELSE 1
        dw == Shl64(Bits64(bh \div 64 + (o % 2097152) * 4), csh, u) \cup cv
    IN  [dw |-> dw, d |-> Val64(dw),
         cc |-> IF cc0 # 0 THEN cc0 + mref1
                ELSE IF bvl = 255
                THEN 16 + mref1 + 255 + Rd(src, ip2 + 1)
                ELSE 16 + mref1 + bvl,
         ip2 |-> ip2, nl |-> nl, ip |-> ip2 + nl,
         cv |-> Bits64(o \div 2097152), csh |-> IF bt = 3 THEN 3 ELSE 0]

\* The reference block at x.ip of lzav_decompress_2 ( label _refblk ).
\* The test "dst + d > op" is a comparison of pointers.  Addresses are
\* below 2^47, so that dst + d lies in the address space and the test is
\* d > op unless the bits 47 to 63 of d are all set.  For such a distance
\* ( far ) dst + d can lead beyond the address space, which is undefined:
\* the build u takes the test as true, or it wraps the pointer around,
\* takes the test as false and copies from op - d, which is op + 2^64 - d,
\* a position behind op.
D2Ref(x, u) ==
    LET Blk(h) ==
            LET d == h.d
                far == (47..63) \subseteq h.dw
                ipd == IF ~far THEN x.op - d
                       ELSE IF (30..63) \subseteq h.dw
                       THEN x.op + Pow2(30) - Val64(h.dw \cap (0..29))
                       ELSE x.op + Huge
                m1 == NoteRd(x.m, x.ip, 5)
            IN  IF (~far /\ d > x.op) \/ (far /\ u.cmp = "flat")
                THEN \* _err_refoob
                     DRet([x EXCEPT !.m = m1, !.d = d, !.pwl = x.op,
                                    !.ip = h.ip2], LZAV_E_REFOOB)
                ELSE DRefCopy([x EXCEPT !.m = NoteRd(m1, h.ip2 + 1, h.nl),
                                        !.d = d, !.csh = h.csh, !.cv = h.cv,
                                        !.bh = Rd(x.src, h.ip), !.ip = h.ip],
                              ipd, h.cc, h.nl # 0)
    IN  Blk(D2RefHdr(x.src, x.ip, x.bh, x.cv, x.csh, x.mref1, u))

\* One iteration of the main loop of lzav_decompress_2 ( ip < ipet ) as
\* the build u runs it.
D2Step(x, u) ==
    IF (x.bh \div 16) % 4 = 0
    THEN LET After(y) == IF y.st = "ref"
                         THEN D2Ref([y EXCEPT !.st = "run"], u) ELSE y
         IN  After(D2Lit(x, u))
    ELSE D2Ref(x, u)

\* The exit of the main loop of both stream decoders.
DFinish(x) ==
    IF x.op # x.dstl
    THEN DRet([x EXCEPT !.pwl = IF x.fn = "d2" THEN x.op ELSE @],
              LZAV_E_DSTLEN)
    ELSE DRet(x, x.op)

\* The entry of lzav_decompress_2 up to its main loop.
D2Enter(x) ==
    LET x1 == [x EXCEPT !.fn = "d2", !.st = "run", !.ip = 1, !.op = 0,
                        !.pwl = x.dstl, !.mref1 = (Rd(x.src, 0) % 16) - 1,
                        !.bh = 0, !.cv = {}, !.csh = 0,
                        !.m = NoteRd(x.m, 0, 1)]
    IN  IF 1 >= x.srcl - 6
        THEN DRet([x1 EXCEPT !.pwl = 0], LZAV_E_SRCOOB)
        ELSE [x1 EXCEPT !.bh = Rd(x.src, 1), !.m = NoteRd(x1.m, 1, 1)]

\* lzav_decompress_2 run to its return from the state x by the build u.
RECURSIVE D2Run(_, _)
D2Run(x, u) ==
    IF x.st # "run" THEN x
    ELSE IF x.ip < x.srcl - 6 THEN D2Run(D2Step(x, u), u) ELSE DFinish(x)

\* The literal block at x.ip of lzav_decompress_1.
D1Lit(x) ==
    LET ipe == x.srcl
        ope == x.dstl
        opet == ope - 63
        cc0 == x.bh % 16
        ip1 == x.ip + 1
        l2 == Rd(x.src, ip1)
        lb == B2N(l2 = 255)
        cc1 == IF cc0 # 0 THEN cc0
               ELSE 16 + l2 + (IF lb = 1 THEN Rd(x.src, ip1 + 1) ELSE 0)
        ipd == IF cc0 # 0 THEN ip1 ELSE ip1 + 1 + lb
        ip2 == ipd + cc1
        m0 == IF cc0 # 0 THEN NoteRd(x.m, x.ip, 1) ELSE NoteRd(x.m, x.ip, 3)
        x0 == [x EXCEPT !.cv = Bits64(x.bh \div 64), !.csh = 2, !.ip = ip2]
        fast1 == cc0 # 0 /\ x.op < opet /\ ipd < ipe - 15 - 6
        fast2 == cc0 = 0 /\ x.op < opet /\ ipd < ipe - 63 - 1
        ipdT == IF fast2 THEN ipd + 64 ELSE ipd
        opT == IF fast2 THEN x.op + 64 ELSE x.op
        ccT == IF fast2 THEN cc1 - 64 ELSE cc1
        mT == IF fast2 THEN CopyIn(m0, x.src, x.op, ipd, 64) ELSE m0
    IN  IF fast1 THEN
            [x0 EXCEPT !.bh = Rd(x.src, ip2), !.st = "ref",
                       !.m = NoteRd(CopyIn(m0, x.src, x.op, ipd, 16), ip2, 1),
                       !.op = x.op + cc1, !.nlit = x.nlit + 1,
                       !.last = "lit"]
        ELSE IF fast2 /\ cc1 < 65 THEN
            [x0 EXCEPT !.bh = Rd(x.src, ip2), !.m = NoteRd(mT, ip2, 1),
                       !.op = x.op + cc1, !.nlit = x.nlit + 1,
                       !.last = "lit"]
        ELSE IF ip2 > ipe THEN
            DRet([x0 EXCEPT !.m = mT, !.op = opT], LZAV_E_SRCOOB)
        ELSE LET x1 == IF ip2 < ipe
                       THEN [x0 EXCEPT !.bh = Rd(x.src, ip2),
                                       !.m = NoteRd(mT, ip2, 1)]
                       ELSE [x0 EXCEPT !.m = mT]
             IN  IF opT + ccT > ope
                 THEN DRet([x1 EXCEPT !.op = opT], LZAV_E_DSTOOB)
                 ELSE DLitCopy(x1, opT, ipdT, ccT)

\* The reference block at x.ip of lzav_decompress_1 ( label _refblk ).
\* The distance is below 2^26: csh is 0 or 2 and cv is below 4.  The bytes
\* of the offset are read before the test of the distance, the next header
\* after it ( with the offset, in one load, for type 3 ).
D1Ref(x) ==
    LET ty == IF (x.bh \div 32) % 2 = 0 THEN 1
              ELSE IF (x.bh \div 16) % 2 = 0 THEN 2 ELSE 3
        o == LoadLE(x.src, x.ip + 1, ty)
        xv == IF ty = 3 THEN o ELSE x.bh \div 64 + o * 4
        d == xv * Pow2(x.csh) + Val64(x.cv)
        ipd == x.op - d
        ip2 == x.ip + 1 + ty
        bh2 == IF ty = 3 THEN Rd(x.src, x.ip + 4) ELSE Rd(x.src, ip2)
        cc0 == x.bh % 16
        m1 == NoteRd(x.m, x.ip, IF ty = 3 THEN 5 ELSE ty + 2)
        xr == [x EXCEPT !.m = m1, !.d = d, !.bh = bh2, !.ip = ip2,
                        !.csh = IF ty = 3 THEN 2 ELSE 0,
                        !.cv = IF ty = 3 THEN Bits64(x.bh \div 64) ELSE {}]
    IN  IF d > x.op
        THEN DRet([x EXCEPT !.m = NoteRd(x.m, x.ip,
                                         IF ty = 3 THEN 5 ELSE ty + 1),
                            !.d = d], LZAV_E_REFOOB)
        ELSE IF cc0 # 0
        THEN DRefCopy(xr, ipd, cc0 + x.mref1, FALSE)
        ELSE DRefCopy([xr EXCEPT !.bh = Rd(x.src, ip2 + 1), !.ip = ip2 + 1,
                                 !.m = NoteRd(m1, ip2 + 1, 1)],
                      ipd, 16 + x.mref1 + bh2, TRUE)

\* One iteration of the main loop of lzav_decompress_1 ( ip < ipet ).
D1Step(x) ==
    IF (x.bh \div 16) % 4 = 0
    THEN LET y == D1Lit(x)
         IN  IF y.st = "ref" THEN D1Ref([y EXCEPT !.st = "run"]) ELSE y
    ELSE D1Ref(x)

\* The entry of lzav_decompress_1 up to its main loop.
D1Enter(x) ==
    LET x1 == [x EXCEPT !.fn = "d1", !.st = "run", !.ip = 1, !.op = 0,
                        !.mref1 = (Rd(x.src, 0) % 16) - 1,
                        !.bh = 0, !.cv = {}, !.csh = 0,
                        !.m = NoteRd(x.m, 0, 1)]
    IN  IF 1 >= x.srcl - 5
        THEN DRet(x1, LZAV_E_SRCOOB)
        ELSE [x1 EXCEPT !.bh = Rd(x.src, 1), !.m = NoteRd(x1.m, 1, 1)]

\* A fast-path condition that does not compare the length with dstl.
DecTinyOk_nodstl(x) ==
    /\ x.srcl <= LZAV_TINY_MAX + 2
    /\ Rd(x.src, 0) \div 16 = LZAV_FMT_CUR
    /\ Rd(x.src, 1) <= LZAV_TINY_MAX

\* A fast-path condition that does not look at the format.
DecTinyOk_anyfmt(x) ==
    /\ x.srcl <= LZAV_TINY_MAX + 2
    /\ Rd(x.src, 1) <= LZAV_TINY_MAX
    /\ Rd(x.src, 1) <= x.dstl

\* The condition of the fast path for tiny data of lzav_decompress.
DecTinyOk(x) ==
    /\ x.srcl <= LZAV_TINY_MAX + 2
    /\ Rd(x.src, 0) \div 16 = LZAV_FMT_CUR
    /\ Rd(x.src, 1) <= LZAV_TINY_MAX
    /\ Rd(x.src, 1) <= x.dstl

\* lzav_decompress after its argument check, up to the stream decoder's
\* main loop: the format read, the fast path for tiny data, the dispatch.
DecompressBody(x) ==
    LET fmt == Rd(x.src, 0) \div 16
        len == Rd(x.src, 1)
        x1 == [x EXCEPT !.m = NoteRd(x.m, 0, 1)]
        x2 == IF x.srcl <= LZAV_TINY_MAX + 2 /\ fmt = LZAV_FMT_CUR
              THEN [x1 EXCEPT !.m = NoteRd(x1.m, 1, 1)] ELSE x1
    IN  IF DecTinyOk(x)
        THEN DRet([x2 EXCEPT !.fn = "tiny",
                             !.m = CopyIn(x2.m, x.src, 0, 2, len)], len)
        ELSE IF fmt = 2 THEN D2Enter(x2)
        ELSE IF fmt = 1 THEN D1Enter(x2)
        ELSE DRet(x2, LZAV_E_UNKFMT)

\* An entry that rejects null pointers only.
lzav_decompress_noalias(x) ==
    IF x.srcp = 0 \/ x.dstp = 0
    THEN DRet(x, LZAV_E_PARAMS)
    ELSE DecompressBody(x)

\* lzav_decompress up to the stream decoder's main loop.  A null pointer
\* is 0; equal pointers are the same buffer.
lzav_decompress(x) ==
    IF x.srcp = 0 \/ x.dstp = 0 \/ x.srcp = x.dstp
    THEN DRet(x, LZAV_E_PARAMS)
    ELSE DecompressBody(x)

\* What the entry point x.api returns once the stream decoder has
\* returned: lzav_decompress the decoder's result, lzav_decompress_partial
\* the length dl the decoder left in *pwl.
DecReturn(x) ==
    IF x.api = "partial" /\ x.st = "ret" THEN [x EXCEPT !.ret = x.pwl] ELSE x

\* lzav_decompress_partial up to the stream decoder's main loop.
lzav_decompress_partial(x) ==
    IF x.srcp = 0 \/ x.dstp = 0 \/ x.srcp = x.dstp
    THEN DRet(x, 0)
    ELSE IF Rd(x.src, 0) \div 16 = 2
    THEN DecReturn(D2Enter([x EXCEPT !.m = NoteRd(x.m, 0, 1)]))
    ELSE DRet([x EXCEPT !.m = NoteRd(x.m, 0, 1)], 0)

(***************************************************************************)
(* The application: the inputs it owns and the calls it makes.             *)
(***************************************************************************)
\* A source of n bytes with period p, byte g ( when below n ) replaced.
Gen(n, p, g) == [i \in 1..n |-> IF i - 1 = g THEN 99 ELSE (i - 1) % p]

Periods == {1, 8, 13}
Glitches == {-1, 6, 27}
\* A source of n bytes that repeats after 600 bytes and not before: the
\* two bytes of a counter, low byte first.
GenBig(n) ==
    [i \in 1..n |-> IF (i - 1) % 2 = 0 THEN (((i - 1) % 600) \div 2) % 256
                    ELSE (((i - 1) % 600) \div 2) \div 256]

\* Two sources whose last match ends LZAV_LIT_FIN bytes before the end,
\* 16 literals before it.  SrcTailHi: 16 distinct bytes, the first 10 of
\* them again, 6 other bytes.  SrcTail: 16 distinct bytes, a 10-byte
\* pattern twice, 16 distinct bytes, the pattern, 6 other bytes.
SrcTailHi ==
    [i \in 1..32 |-> IF i <= 16 THEN 100 + i
                     ELSE IF i <= 26 THEN 100 + i - 16 ELSE 200 + i]

SrcTail ==
    [i \in 1..68 |-> IF i <= 16 THEN 100 + i
                     ELSE IF i <= 26 THEN i - 16
                     ELSE IF i <= 36 THEN i - 26
                     ELSE IF i <= 52 THEN 150 + i
                     ELSE IF i <= 62 THEN i - 52 ELSE 180 + i]

\* A source on which the lazy matching of lzav_compress_hi steps ip back.
SrcLazy ==
    <<1, 1, 0, 1, 1, 0, 0, 1, 1, 0, 1, 1, 0, 1, 1, 1, 0, 0, 1, 0, 1, 1, 1, 0,
      0, 0, 1, 1, 1, 1, 0, 1, 1, 0, 1, 0>>

Sources == {Gen(n, p, g) : n \in 1..MaxSrcLen, p \in Periods, g \in Glitches}
           \cup {GenBig(BigSrcLen), SrcTailHi, SrcTail, SrcLazy}

\* Byte streams handed to the decompressor as they are.
Streams ==
    { \* format 2, a reference block right after the prefix
      <<38, 17, 5, 1, 2, 3, 4, 5>>,
      <<38, 17, 5>> \o [i \in 1..33 |-> i],
      \* format 2, a short literal block padded to LZAV_LIT_FIN
      <<37, 3, 7, 8, 9, 0, 0, 0>>,
      \* format 2, literal 4, reference ( d = 4, 20 bytes ), literal 17,
      \* reference ( d = 4, 20 bytes ), 6 finishing literals
      <<38, 4, 1, 2, 3, 4, 31, 1, 0, 1>> \o [i \in 1..17 |-> 50 + i]
          \o <<31, 1, 6, 9, 8, 7, 6, 5, 4>>,
      \* format 2, literal 3 ( 16-byte copy ), reference ( d = 3, 43 bytes,
      \* 64-byte copy ), 21 finishing literals: 67 bytes
      <<38, 195, 1, 2, 3, 16, 0, 22, 0, 5>> \o [i \in 1..21 |-> 100 + i],
      \* format 2, literals of 30, 1, 1 and 35 bytes: 67 bytes
      <<38, 0, 14>> \o [i \in 1..30 |-> i] \o <<1, 7, 1, 8, 0, 19>>
          \o [i \in 1..35 |-> 40 + i],
      \* format 2, literal 30, reference ( d = 4, 37 bytes ), and 6 bytes
      \* that no block header is read from: 67 bytes
      <<38, 0, 14>> \o [i \in 1..30 |-> i] \o <<80, 0, 16, 0, 0, 0, 0, 0, 0>>,
      \* format 2, a literal block running past the end of the stream
      <<38, 0, 200, 1>> \o [i \in 1..32 |-> i],
      \* format 1, literal 4, reference ( d = 4, 6 bytes ), 5 literals
      <<22, 4, 1, 2, 3, 4, 81, 0, 5, 9, 9, 9, 9, 9>>,
      \* format 1, a reference block right after the prefix
      <<22, 17, 5, 1, 2, 3, 4, 5>>,
      \* unknown formats 0, 3 and 15
      <<6, 3, 7, 8, 9, 0, 0, 0>>,
      <<54, 3, 7, 8, 9, 0, 0, 0>>,
      <<246, 17, 5>> \o [i \in 1..33 |-> i],
      <<0>>,
      \* the prefix byte of format 2 and nothing else
      <<38>>,
      \* format 2, 21 literal blocks of 1 byte ( csh = 42 ), a reference whose
      \* offset bits are all shifted beyond bit 63 ( d = 0, 6 bytes ), 6
      \* finishing literals: 33 bytes
      <<38>> \o [i \in 1..42 |-> IF i % 2 = 1 THEN 1 ELSE 65]
          \o <<49, 0, 0, 16, 6, 1, 2, 3, 4, 5, 6>>,
      \* format 2, 33 literal blocks of 1 byte, the last with a carry bit
      \* shifted by 64, a reference ( 6 bytes ), 6 finishing literals: 45
      \* bytes
      <<38>> \o [i \in 1..64 |-> IF i % 2 = 1 THEN 1 ELSE 65]
          \o <<65, 65, 81, 0, 6, 1, 2, 3, 4, 5, 6>>,
      \* format 2, 31 literal blocks of 1 byte that set the bits 0 to 61 of
      \* the carry, a reference whose header sets the bits 62 and 63
      \* ( d = 2^64 - 1, 6 bytes ), 6 finishing literals: 43 bytes
      <<38>> \o [i \in 1..62 |-> IF i % 2 = 1 THEN 193 ELSE 65]
          \o <<209, 0, 6, 1, 2, 3, 4, 5, 6>> }

\* The dstl values tried on those streams.
StreamDstLens == {0, 3, 15, 17, 33, 43, 45, 67}

\* What memory holds where the program has not written: one byte
\* repeated, or bytes that differ from one position to the next.
JunkBytes == {<<0>>, <<1>>, <<3, 7, 8, 9, 32, 17, 18, 165>>}

\* What lies behind a stream of one byte: the byte right behind it is
\* the length lzav_decompress reads for a stream of at most
\* LZAV_TINY_MAX + 2 bytes, so every value of it is tried, repeated or
\* followed by bytes that differ.
JunkBehind ==
    {<<b>> : b \in 0..255} \cup {<<b, 7, 8, 9, 32, 17, 18, 165>> : b \in 0..255}

\* The argument lists ( src, dst, srcl, dstl ) of the compressor calls made
\* on the source s, for the size bound bnd of the compressor.  The
\* destination buffer holds dstl bytes and lies at an address that is al
\* modulo the word size.  With src == dst the address matters where
\* lzav_memcpy copies by words.
CompArgs(s, bnd) ==
    LET n == Len(s)
        a(sp, dp, sl, dl, al) == [srcp |-> sp, dstp |-> dp, srcl |-> sl,
                                  dstl |-> dl, al |-> al]
    IN  {a(1, 2, n, bnd, 0), a(1, 2, n, bnd - 1, 0), a(0, 2, n, bnd, 0),
         a(1, 0, n, bnd, 0), a(1, 2, 0, bnd, 0), a(1, 2, -1, bnd, 0)}
        \cup {a(1, 1, n, bnd, al) :
                 al \in IF n < 2 * WordSize \/ n > LZAV_TINY_MAX THEN {0}
                        ELSE 0..(WordSize - 1)}

\* The compressor record at the call.
CompCall(fn, a) ==
    [CompIdle EXCEPT !.fn = fn, !.srcp = a.srcp, !.dstp = a.dstp,
                     !.al = a.al, !.srcl = a.srcl, !.dstl = a.dstl,
                     !.m = MemInit(IF a.dstl > 0 THEN a.dstl ELSE 0)]

\* The decompressor record at the call.
DecCall(src, sp, dp, sl, dl) ==
    [DecIdle EXCEPT !.src = src, !.srcp = sp, !.dstp = dp, !.srcl = sl,
                    !.dstl = dl, !.m = MemInit(dl)]

\* The same for a call of lzav_decompress_partial.
PartialCall(src, sp, dp, sl, dl) ==
    [DecCall(src, sp, dp, sl, dl) EXCEPT !.api = "partial"]

BqIdle == [a |-> 0, b |-> 0, ba |-> 0, bb |-> 0, ha |-> 0, hb |-> 0]

Init ==
    /\ \/ data \in Sources /\ kind = "plain"
       \/ data \in Streams /\ kind = "stream"
    /\ junk \in JunkBytes \cup (IF kind = "stream" /\ Len(data) = 1
                              THEN JunkBehind ELSE {})
    /\ pc = "idle"
    /\ comp = CompIdle
    /\ dec = DecIdle
    /\ bq = BqIdle

\* Where the application is after the compressor step that left c.
CompPc(c) == IF c.st = "run" THEN c.fn
             ELSE IF c.st = "fault" THEN "fault" ELSE "c_ret"

\* Where the application is after the decompressor step that left x.
DecPc(x) == IF x.st = "run"
            THEN (IF x.fn = "d2" THEN "decompress_2" ELSE "decompress_1")
            ELSE IF x.st = "fault" THEN "fault" ELSE "d_ret"

\* What a decoder step from w that leaves x can end in.  A step that
\* reads further behind the source buffer, or further behind the
\* destination buffer, than the steps before it gets the bytes that lie
\* there ( junk ), or the call dies when no memory is mapped there.
DecOutcomes(w, x) ==
    IF \/ x.m.rhi > Len(x.src) /\ x.m.rhi > w.m.rhi
       \/ x.cphi > x.dstl /\ x.cphi > w.cphi
    THEN {x, [x EXCEPT !.st = "fault"]}
    ELSE {x}

\* lzav_compress_default( src, dst, srcl, dstl ): lzav_compress without an
\* external buffer.
CallCompress ==
    /\ pc = "idle" /\ kind = "plain"
    /\ \E a \in CompArgs(data, lzav_compress_bound(Len(data))),
          mok \in BOOLEAN :
         /\ comp' = CompressEnter(CompCall("compress", a), data, mok)
         /\ pc' = CompPc(comp')
    /\ UNCHANGED <<data, kind, junk, dec, bq>>

\* lzav_compress( src, dst, srcl, dstl, ext_buf, ext_bufl ) with an
\* external buffer, on the sources above MaxSrcLen bytes; ext_bufl is
\* below the on-stack table's size, above it, and twice it.
CallCompressExt ==
    /\ pc = "idle" /\ kind = "plain" /\ Len(data) > MaxSrcLen
    /\ \E el \in {100, 20000, 32768}, ovf \in BOOLEAN :
         /\ comp' = CompressEnterExt(
                        [CompCall("compress",
                                  [srcp |-> 1, dstp |-> 2, srcl |-> Len(data),
                                   dstl |-> lzav_compress_bound(Len(data)),
                                   al |-> 0])
                         EXCEPT !.extp = 3, !.extl = el], data, ovf)
         /\ pc' = CompPc(comp')
    /\ UNCHANGED <<data, kind, junk, dec, bq>>

CompressLoop ==
    /\ pc = "compress"
    /\ comp.ip < comp.srcl - LZAV_LIT_FIN - 9
    /\ comp' = CompressStep(comp, data)
    /\ UNCHANGED <<data, kind, junk, pc, dec, bq>>

CompressEnd ==
    /\ pc = "compress"
    /\ ~(comp.ip < comp.srcl - LZAV_LIT_FIN - 9)
    /\ \E kill \in BOOLEAN : comp' = CompressFinish(comp, data, kill)
    /\ pc' = CompPc(comp')
    /\ UNCHANGED <<data, kind, junk, dec, bq>>

CallCompressHi ==
    /\ pc = "idle" /\ kind = "plain"
    /\ \E a \in CompArgs(data, lzav_compress_bound_hi(Len(data))),
          mok \in BOOLEAN :
         /\ comp' = CompressHiEnter(CompCall("compress_hi", a), data, mok)
         /\ pc' = CompPc(comp')
    /\ UNCHANGED <<data, kind, junk, dec, bq>>

CompressHiLoop ==
    /\ pc = "compress_hi"
    /\ comp.ip < comp.srcl - LZAV_LIT_FIN - 9
    /\ comp' = CompressHiStep(comp, data)
    /\ UNCHANGED <<data, kind, junk, pc, dec, bq>>

CompressHiEnd ==
    /\ pc = "compress_hi"
    /\ ~(comp.ip < comp.srcl - LZAV_LIT_FIN - 9)
    /\ comp' = CompressHiFinish(comp, data)
    /\ pc' = "c_ret"
    /\ UNCHANGED <<data, kind, junk, dec, bq>>

\* The compressed stream of a finished compressor call.
Compressed(c) == SubSeq(c.m.dst, 1, c.ret)

\* lzav_decompress on the stream a compressor returned, with dstl = | s |.
CallDecompressBack ==
    /\ pc = "c_ret"
    /\ comp.ret > 0 /\ comp.srcp # comp.dstp
    /\ dec' \in DecOutcomes(DecIdle,
                lzav_decompress(DecCall(Compressed(comp), 1, 2, comp.ret,
                                          Len(data))))
    /\ pc' = DecPc(dec')
    /\ UNCHANGED <<data, kind, junk, comp, bq>>

\* lzav_decompress on the first k bytes of that stream, k < its length
\* ( the streams of the sources of up to MaxSrcLen bytes are cut ).
CallDecompressTrunc ==
    /\ pc = "c_ret" /\ Len(data) <= MaxSrcLen
    /\ comp.ret > 0 /\ comp.srcp # comp.dstp
    /\ \E k \in 1..(comp.ret - 1) :
         dec' \in DecOutcomes(DecIdle,
                lzav_decompress(DecCall(SubSeq(Compressed(comp), 1, k), 1, 2,
                                            k, Len(data))))
    /\ pc' = DecPc(dec')
    /\ UNCHANGED <<data, kind, junk, comp, bq>>

\* lzav_decompress on that stream with dstl below | s |: 0, half of | s |
\* and | s | - 1.
CallDecompressShort ==
    /\ pc = "c_ret" /\ Len(data) <= MaxSrcLen
    /\ comp.ret > 0 /\ comp.srcp # comp.dstp
    /\ \E dl \in {0, Len(data) \div 2, Len(data) - 1}
                   \cap (0..(Len(data) - 1)) :
         dec' \in DecOutcomes(DecIdle,
                lzav_decompress(DecCall(Compressed(comp), 1, 2, comp.ret, dl)))
    /\ pc' = DecPc(dec')
    /\ UNCHANGED <<data, kind, junk, comp, bq>>

\* lzav_decompress_partial on the first k bytes of that stream, the whole
\* stream included, with dstl = | s |.
CallPartialBack ==
    /\ pc = "c_ret" /\ Len(data) <= MaxSrcLen
    /\ comp.ret > 0 /\ comp.srcp # comp.dstp
    /\ \E k \in 1..comp.ret :
         dec' \in DecOutcomes(DecIdle,
                lzav_decompress_partial(
                        PartialCall(SubSeq(Compressed(comp), 1, k), 1, 2, k,
                                    Len(data))))
    /\ pc' = DecPc(dec')
    /\ UNCHANGED <<data, kind, junk, comp, bq>>

\* lzav_decompress_partial on a stream the application owns.
CallPartial ==
    /\ pc = "idle" /\ kind = "stream"
    /\ \E dl \in StreamDstLens, sl \in {0, Len(data)},
          pp \in {<<1, 2>>, <<0, 2>>, <<1, 0>>, <<1, 1>>} :
         dec' \in DecOutcomes(DecIdle,
                lzav_decompress_partial(
                        PartialCall(data, pp[1], pp[2], sl, dl)))
    /\ pc' = DecPc(dec')
    /\ UNCHANGED <<data, kind, junk, comp, bq>>

\* lzav_decompress on a stream the application owns.
CallDecompress ==
    /\ pc = "idle" /\ kind = "stream"
    /\ \E dl \in StreamDstLens, sl \in {0, Len(data)},
          pp \in {<<1, 2>>, <<0, 2>>, <<1, 0>>, <<1, 1>>} :
         dec' \in DecOutcomes(DecIdle,
                lzav_decompress(DecCall(data, pp[1], pp[2], sl, dl)))
    /\ pc' = DecPc(dec')
    /\ UNCHANGED <<data, kind, junk, comp, bq>>

\* One iteration of the main loop of lzav_decompress_2, as one of the
\* builds runs it.
Decompress2Loop ==
    /\ pc = "decompress_2"
    /\ dec.ip < dec.srcl - 6
    /\ \E u \in Builds :
         dec' \in DecOutcomes(dec, DecReturn(D2Step(dec, u)))
    /\ pc' = DecPc(dec')
    /\ UNCHANGED <<data, kind, junk, comp, bq>>

Decompress2End ==
    /\ pc = "decompress_2"
    /\ ~(dec.ip < dec.srcl - 6)
    /\ dec' = DecReturn(DFinish(dec))
    /\ pc' = "d_ret"
    /\ UNCHANGED <<data, kind, junk, comp, bq>>

Decompress1Loop ==
    /\ pc = "decompress_1"
    /\ dec.ip < dec.srcl - 5
    /\ dec' \in DecOutcomes(dec, D1Step(dec))
    /\ pc' = DecPc(dec')
    /\ UNCHANGED <<data, kind, junk, comp, bq>>

Decompress1End ==
    /\ pc = "decompress_1"
    /\ ~(dec.ip < dec.srcl - 5)
    /\ dec' = DFinish(dec)
    /\ pc' = "d_ret"
    /\ UNCHANGED <<data, kind, junk, comp, bq>>

Next ==
    \/ CallCompress
    \/ CallCompressExt
    \/ CompressLoop
    \/ CompressEnd
    \/ CallCompressHi
    \/ CompressHiLoop
    \/ CompressHiEnd
    \/ CallDecompressBack
    \/ CallDecompressTrunc
    \/ CallDecompressShort
    \/ CallPartialBack
    \/ CallPartial
    \/ CallDecompress
    \/ Decompress2Loop
    \/ Decompress2End
    \/ Decompress1Loop
    \/ Decompress1End

Spec == Init /\ [][Next]_vars

(***************************************************************************)
(* The block codec on its own: an application that writes block pairs with *)
(* lzav_write_blk_2 as the compressors do ( prefix byte, then cbp = op and *)
(* csh = 0 ), closes the stream with lzav_write_fin_2 and hands it to      *)
(* lzav_decompress_2 with dstl the number of bytes the blocks stand for.   *)
(* Here comp is the writer: its memory, op, cbp, csh, the pairs written    *)
(* ( blks ), the bytes they stand for ( out ) and, for every call of       *)
(* lzav_write_blk_2, the carry pointer and shift it was called with,       *)
(* whether the byte at the pointer was written before, its value before    *)
(* and after the carry was paid, and the output position of the reference  *)
(* ( cbs ).  dec is the call of lzav_decompress_2.  pc is "blk_write" or   *)
(* the position of the decoder.                                            *)
(***************************************************************************)
\* The most block pairs written to one stream out of CodecPairs.
MaxBlocks == 2

\* Block pairs << lc, rc - mref, d >>: no literals, a count in the header
\* and a count in two more bytes; the three forms of the length; distances
\* of one, two and three offset bytes, with low bits set.
CodecPairs ==
    { <<0, 0, 1>>, <<0, 16, 31>>, <<0, 524, 8191>>, <<0, 3, 262147>>,
      <<0, 16, 4194309>>, <<0, 524, LZAV_WIN_LEN - 1>>,
      <<5, 16, 1>>, <<5, 524, 31>>, <<5, 0, 262147>>,
      <<5, 15, LZAV_WIN_LEN - 1>>,
      <<150, 524, 8191>>, <<150, 0, 4194309>>, <<150, 16, 31>>,
      <<150, 271, LZAV_WIN_LEN - 1>> }

\* Streams written pair by pair as listed, with literal runs long enough
\* for the distances of two and of three offset bytes to lie within the
\* output: a reference of two offset bytes behind literals, one without
\* literals, a pair behind each; a reference of three offset bytes ( d of
\* 2^18 and above ), behind it a pair with literals whose distance has
\* bits in the 3 bits and in the 2 bits carried, a second reference of
\* three offset bytes and a pair without literals behind it; a reference
\* of three offset bytes behind literals ( d of 2^20 and above ), one
\* behind another ( d of 2^21 and above ), and one of two offset bytes
\* behind literals and a reference of three.
CodecRuns ==
    { << <<4200, 16, 4099>>, <<0, 524, 1027>>, <<5, 0, 4103>> >>,
      << <<262200, 271, 262147>>, <<0, 3, 262147>>, <<5, 15, 31>>,
         <<0, 0, 262149>>, <<0, 16, 7>> >>,
      << <<2097300, 16, 1048579>>, <<0, 3, 2097159>>, <<5, 15, 32799>> >> }

\* A source of n bytes the literals are taken from.
CodecBytes(n) == [i \in 1..n |-> (i * 37) % 256]

\* The source of the streams made of CodecPairs.
CodecSrc == CodecBytes(166)

\* The literals of the pairs of run, with their header bytes.
RECURSIVE CodecRoom(_)
CodecRoom(run) ==
    IF run = <<>> THEN 0 ELSE run[1][1] + 16 + CodecRoom(Tail(run))

\* The literal counts of the finishing block; a stream of CodecRuns ends
\* with the shortest.
CodecFins == {LZAV_LIT_FIN, 16}

\* The writer after the prefix byte is stored: op is behind it, the carry
\* pointer is on op and the carry shift is 0.  The destination holds the
\* pairs of run, or MaxBlocks pairs for an empty run, and the finishing
\* block.
CodecStart(mref, run) ==
    [fn |-> "codec", mref |-> mref,
     m |-> Put(MemInit(1 + (IF run = <<>> THEN MaxBlocks * 176
                            ELSE CodecRoom(run)) + 48),
               0, <<LZAV_FMT_CUR * 16 + mref>>),
     op |-> 1, cbp |-> 1, csh |-> 0, ret |-> 0, fin |-> 0, out |-> 0,
     blks |-> <<>>, cbs |-> <<>>, any |-> run = <<>>, todo |-> run]

\* The pairs the writer c can write next.
CodecNext(c) ==
    IF c.any THEN (IF Len(c.blks) < MaxBlocks THEN CodecPairs ELSE {})
    ELSE IF c.todo # <<>> THEN {Head(c.todo)} ELSE {}

\* The writer after lzav_write_blk_2( op, lc, rc, d, ipa, &cbp, &csh, mref ).
CodecPut(c, s, lc, rc, d) ==
    LET Blk(w) ==
            [c EXCEPT !.m = w.m, !.op = w.op, !.cbp = w.cbp, !.csh = w.csh,
                      !.out = c.out + lc + rc,
                      !.todo = IF c.any THEN @ ELSE Tail(@),
                      !.blks = Append(@, <<lc, rc, d>>),
                      !.cbs = Append(@,
                          [cbp |-> c.cbp, csh |-> c.csh,
                           was |-> c.cbp >= c.m.wlo /\ c.cbp < c.m.whi,
                           old |-> DstAt(c.m, c.cbp),
                           new |-> CarryByte(c.m, c.cbp, c.csh, d),
                           out |-> c.out + lc])]
    IN  Blk(lzav_write_blk_2(c.m, s, c.op, lc, rc, d, 0, c.cbp, c.csh,
                             c.mref))

\* The writer after lzav_write_fin_2( op, lc, ipa ).
CodecClose(c, s, lc) ==
    LET Fin(w) == [c EXCEPT !.m = w.m, !.op = w.op, !.ret = w.op,
                            !.fin = lc, !.out = c.out + lc]
    IN  Fin(lzav_write_fin_2(c.m, s, c.op, lc, 0))

\* The streams of CodecPairs are written and read with every content of
\* JunkBytes in the memory not written, those of CodecRuns with bytes that
\* differ from one position to the next.
InitCodec ==
    /\ kind = "plain"
    /\ pc = "blk_write"
    /\ \/ \E mref \in {HI_MREF, LZAV_REF_MIN} :
            /\ data = CodecSrc
            /\ junk \in JunkBytes
            /\ comp = CodecStart(mref, <<>>)
       \/ \E mref \in {HI_MREF, LZAV_REF_MIN}, run \in CodecRuns :
            /\ data = CodecBytes(run[1][1] + 16)
            /\ junk = <<3, 7, 8, 9, 32, 17, 18, 165>>
            /\ comp = CodecStart(mref, run)
    /\ dec = DecIdle
    /\ bq = BqIdle

\* lzav_write_blk_2 on one more pair.
CodecWrite ==
    /\ pc = "blk_write"
    /\ \E b \in CodecNext(comp) :
         comp' = CodecPut(comp, data, b[1], comp.mref + b[2], b[3])
    /\ UNCHANGED <<data, kind, junk, pc, dec, bq>>

\* lzav_write_fin_2, then lzav_decompress_2( src, dst, srcl, dstl, pwl ) on
\* the stream, up to its main loop.
CodecFin ==
    /\ pc = "blk_write" /\ (comp.any \/ comp.todo = <<>>)
    /\ \E lc \in (IF comp.any THEN CodecFins ELSE {LZAV_LIT_FIN}) :
         /\ comp' = CodecClose(comp, data, lc)
         /\ dec' \in DecOutcomes(DecIdle,
                D2Enter(DecCall(Compressed(comp'), 1, 2, comp'.ret,
                                comp'.out)))
    /\ pc' = DecPc(dec')
    /\ UNCHANGED <<data, kind, junk, bq>>

NextCodec ==
    \/ CodecWrite
    \/ CodecFin
    \/ Decompress2Loop
    \/ Decompress2End

SpecCodec == InitCodec /\ [][NextCodec]_vars

(***************************************************************************)
(* The application that only compresses: the longest sources of each       *)
(* period and the sources built for one case.  The compressors are         *)
(* straight-line synchronous routines: a call whose main loop can take its *)
(* next iteration, or can leave the loop, does so.                         *)
(***************************************************************************)
InitLive ==
    /\ data \in {Gen(n, p, g) : n \in (MaxSrcLen - 3)..MaxSrcLen,
                                p \in Periods, g \in Glitches}
                \cup {SrcTailHi, SrcTail, SrcLazy}
    /\ kind = "plain"
    /\ junk \in JunkBytes
    /\ pc = "idle"
    /\ comp = CompIdle
    /\ dec = DecIdle
    /\ bq = BqIdle

NextLive ==
    \/ CallCompress
    \/ CompressLoop
    \/ CompressEnd
    \/ CallCompressHi
    \/ CompressHiLoop
    \/ CompressHiEnd

\* Whether an iteration of a main loop, or the code after it, can run and
\* change the state, computed from the step functions: the
\* call is in a main loop and its next step changes the state (leaving the
\* loop always does, it moves pc).
CanRun ==
    \/ /\ pc = "compress"
       /\ comp.ip < comp.srcl - LZAV_LIT_FIN - 9 => CompressStep(comp, data) # comp
    \/ /\ pc = "compress_hi"
       /\ comp.ip < comp.srcl - LZAV_LIT_FIN - 9
              => CompressHiStep(comp, data) # comp

\* Weak fairness of the loop steps, with their ENABLED written as CanRun:
\* a call that can go on for ever goes on.
RunsFairly ==
    <>[]CanRun => []<><<CompressLoop \/ CompressEnd \/ CompressHiLoop
                        \/ CompressHiEnd>>_vars

SpecLive == InitLive /\ [][NextLive]_vars /\ RunsFairly

(***************************************************************************)
(* The application that only queries the size bounds.                      *)
(***************************************************************************)
InitBound ==
    /\ data = <<>> /\ kind = "none" /\ junk = <<0>>
    /\ pc = "bound"
    /\ comp = CompIdle
    /\ dec = DecIdle
    /\ bq = BqIdle

\* lzav_compress_bound and lzav_compress_bound_hi on a and on b >= a.
QueryBound ==
    /\ pc = "bound"
    /\ \E a \in 0..MaxBoundArg : \E b \in a..MaxBoundArg :
         bq' = [a |-> a, b |-> b,
                ba |-> lzav_compress_bound(a), bb |-> lzav_compress_bound(b),
                ha |-> lzav_compress_bound_hi(a),
                hb |-> lzav_compress_bound_hi(b)]
    /\ pc' = "bound_ret"
    /\ UNCHANGED <<data, kind, junk, comp, dec>>

NextBound == QueryBound

SpecBound == InitBound /\ [][NextBound]_vars

(***************************************************************************)
(* Properties.                                                             *)
(***************************************************************************)
\* A compressor call on the whole source with valid, distinct buffers.
CompOnSource == comp.srcp = 1 /\ comp.dstp = 2 /\ comp.srcl = Len(data)

\* The size bound of the compressor called.
CompBound == IF comp.fn = "compress_hi" THEN lzav_compress_bound_hi(Len(data))
             ELSE lzav_compress_bound(Len(data))

\* A decompressor call with non-null, distinct buffers.
DecOnBuffers == dec.srcp # 0 /\ dec.dstp # 0 /\ dec.srcp # dec.dstp

\* The call came through lzav_decompress.
DecFull == dec.api = "decompress"

\* lzav_decompress has returned from the call on the whole stream of the
\* compressor call, with dstl = | s |.
DecBack ==
    /\ pc = "d_ret" /\ DecFull /\ kind = "plain"
    /\ dec.srcl = comp.ret /\ dec.dstl = Len(data)

\* C1 as stated: round trip of the default compressor.  Called on a
\* source of at least 1 byte with a destination of at least
\* lzav_compress_bound bytes, lzav_compress_default returns a length above
\* 0, and lzav_decompress on those bytes with dstl = | s | returns | s |
\* and leaves s in the destination.
C1_DefaultRoundTrip ==
    (comp.fn = "compress" /\ comp.extp = 0 /\ CompOnSource
     /\ comp.dstl >= CompBound)
    => /\ comp.st # "fault"
       /\ comp.st = "ret" => comp.ret > 0
       /\ DecBack => dec.ret = Len(data) /\ dec.m.dst = data

\* C1: the same round trip for the calls in which the allocation of the
\* hash table, made for sources above 4096 bytes, succeeds.
C1_DefaultRoundTripAlloc ==
    (comp.fn = "compress" /\ comp.extp = 0 /\ CompOnSource
     /\ comp.dstl >= CompBound /\ comp.heap # "failed")
    => /\ comp.st # "fault"
       /\ comp.st = "ret" => comp.ret > 0
       /\ DecBack => dec.ret = Len(data) /\ dec.m.dst = data

\* A source above the tiny-data size whose compressed stream holds a
\* reference block has been compressed and decompressed back.
C1_Witness ==
    /\ DecBack /\ comp.fn = "compress" /\ CompOnSource
    /\ comp.dstl >= CompBound
    /\ Len(data) > LZAV_TINY_MAX /\ comp.nref > 0 /\ dec.nref > 0
    /\ dec.fn = "d2" /\ dec.ret = Len(data) /\ dec.m.dst = data

\* C2: round trip of the high-ratio compressor.  Called on a source of at
\* least 1 byte with a destination of at least lzav_compress_bound_hi
\* bytes, malloc succeeding, lzav_compress_hi returns a length above 0, and
\* lzav_decompress on those bytes with dstl = | s | returns | s | and leaves
\* s in the destination.
C2_HiRoundTrip ==
    (comp.fn = "compress_hi" /\ CompOnSource /\ comp.dstl >= CompBound
     /\ comp.heap # "failed")
    => /\ comp.st # "fault"
       /\ comp.st = "ret" => comp.ret > 0
       /\ DecBack => dec.ret = Len(data) /\ dec.m.dst = data

\* C3: lzav_decompress, called with non-null distinct buffers, returns
\* dstl or a negative error code, never another non-negative value.
C3_ExactOrNegative ==
    (pc = "d_ret" /\ DecFull /\ DecOnBuffers)
    => (dec.ret = dec.dstl \/ dec.ret < 0)

\* C4: the length lzav_compress returns is at most lzav_compress_bound of
\* the source length, the length lzav_compress_hi returns is at most
\* lzav_compress_bound_hi of it.
C4_WithinBound ==
    (comp.st = "ret" /\ comp.srcl = Len(data)) => comp.ret <= CompBound

\* lzav_compress_hi has returned a stream longer than its source.
C4_Witness ==
    /\ comp.st = "ret" /\ comp.fn = "compress_hi" /\ CompOnSource
    /\ comp.ret > Len(data) /\ comp.ret <= CompBound
    /\ Len(data) >= 16

\* C5: a compressor called with dstl one less than its bound for the
\* source length returns 0.
C5_Undersized ==
    (comp.st = "ret" /\ CompOnSource /\ comp.dstl = CompBound - 1)
    => comp.ret = 0

\* C6: a compressor called with srcl <= 0, a null src, a null dst or
\* src == dst returns 0 and neither reads through src nor writes through
\* dst.
C6_ArgValidation ==
    (comp.fn # "none"
     /\ (comp.srcl <= 0 \/ comp.srcp = 0 \/ comp.dstp = 0
         \/ comp.srcp = comp.dstp))
    => /\ comp.st = "ret" /\ comp.ret = 0
       /\ comp.m.rlo = NoPos /\ comp.m.wlo = NoPos

\* C7 as stated: for 0 <= a <= b both bounds of a are at most those of b.
C7_Monotone ==
    pc = "bound_ret" => bq.ba <= bq.bb /\ bq.ha <= bq.hb

\* C7: for 0 <= a <= b, lzav_compress_bound( a ) exceeds
\* lzav_compress_bound( b ) by at most 2, and lzav_compress_bound_hi( a )
\* exceeds lzav_compress_bound_hi( b ) by at most 2.
C7_MonotoneWithin2 ==
    pc = "bound_ret" => bq.ba <= bq.bb + 2 /\ bq.ha <= bq.hb + 2

\* The bound of 149 bytes has been found 2 above the bound of 150 bytes.
C7_Witness ==
    /\ pc = "bound_ret" /\ bq.a = 149 /\ bq.b = 150
    /\ bq.ba = bq.bb + 2

\* C8: lzav_decompress called with a null src, a null dst or src == dst
\* returns LZAV_E_PARAMS and touches neither buffer, whatever srcl and
\* dstl.
C8_ParamsUntouched ==
    (dec.st # "none" /\ DecFull /\ ~DecOnBuffers)
    => /\ dec.st = "ret" /\ dec.ret = LZAV_E_PARAMS
       /\ dec.m.rlo = NoPos /\ dec.m.wlo = NoPos
       /\ dec.m.dst = MemInit(dec.dstl).dst

\* lzav_decompress has returned from a call with src == dst on a stream
\* that the fast path for tiny data accepts.
C8_Witness ==
    /\ pc = "d_ret" /\ DecFull /\ dec.srcp = dec.dstp /\ dec.srcp # 0
    /\ DecTinyOk(dec) /\ dec.srcl > 0
    /\ dec.ret = LZAV_E_PARAMS

\* C9: on a source whose first byte has an upper nibble other than 1 and
\* 2, with non-null distinct buffers and srcl >= 1, lzav_decompress returns
\* LZAV_E_UNKFMT and writes nothing to dst.
C9_UnknownFormat ==
    (dec.st # "none" /\ DecFull /\ DecOnBuffers /\ dec.srcl >= 1
     /\ Rd(dec.src, 0) \div 16 \notin LZAV_FMT_MIN..LZAV_FMT_CUR)
    => /\ dec.st = "ret" /\ dec.ret = LZAV_E_UNKFMT
       /\ dec.m.wlo = NoPos
       /\ dec.m.dst = MemInit(dec.dstl).dst

\* lzav_decompress has returned from a call on a stream of format 3 short
\* enough for the tiny-data path, its second byte fitting dstl.
C9_Witness ==
    /\ pc = "d_ret" /\ DecFull /\ DecOnBuffers
    /\ Rd(dec.src, 0) \div 16 = 3
    /\ dec.srcl >= 1 /\ dec.srcl <= LZAV_TINY_MAX + 2
    /\ Rd(dec.src, 1) <= dec.dstl
    /\ dec.ret = LZAV_E_UNKFMT

\* C10: on a stream with a format-2 prefix in which the block decoding of
\* lzav_decompress_2 reaches a reference block whose distance exceeds the
\* bytes written so far, lzav_decompress returns LZAV_E_REFOOB and no
\* reference copy reads before dst.
C10_RefOob ==
    (pc = "d_ret" /\ DecFull /\ DecOnBuffers
     /\ Rd(dec.src, 0) \div 16 = LZAV_FMT_CUR
     /\ \A u \in Builds :
          D2Run(D2Enter(DecCall(dec.src, dec.srcp, dec.dstp, dec.srcl,
                                dec.dstl)), u).ret = LZAV_E_REFOOB)
    => dec.ret = LZAV_E_REFOOB /\ dec.cplo >= 0

\* A call on the first bytes of the stream that the compressor call on the
\* whole source returned, with dstl = | s |.
OnPrefix ==
    /\ pc = "d_ret" /\ kind = "plain" /\ DecOnBuffers /\ CompOnSource
    /\ comp.ret > 0 /\ dec.dstl = Len(data)
    /\ dec.src = SubSeq(Compressed(comp), 1, dec.srcl)

\* C11: lzav_decompress on a proper prefix t of the stream a compressor
\* returned for s, with srcl = | t | and dstl = | s |, returns
\* LZAV_E_SRCOOB or LZAV_E_DSTLEN.
C11_TruncationDetected ==
    (OnPrefix /\ DecFull /\ dec.srcl >= 1 /\ dec.srcl < comp.ret)
    => dec.ret \in {LZAV_E_SRCOOB, LZAV_E_DSTLEN}

\* C12: lzav_decompress on the whole stream a compressor returned for s,
\* with dstl below | s |, returns LZAV_E_DSTOOB.
C12_DstOob ==
    (pc = "d_ret" /\ kind = "plain" /\ DecFull /\ DecOnBuffers
     /\ CompOnSource /\ comp.ret > 0
     /\ dec.src = Compressed(comp) /\ dec.srcl = comp.ret
     /\ dec.dstl < Len(data))
    => dec.ret = LZAV_E_DSTOOB

\* C13: lzav_decompress and lzav_decompress_partial store no byte outside
\* [ dst, dst + dstl ), whatever the stream, srcl and dstl.
C13_WriteSafe ==
    dec.m.wlo # NoPos => dec.m.wlo >= 0 /\ dec.m.whi <= dec.dstl

\* lzav_decompress has decoded a stream through the 16-byte literal copy
\* and the 64-byte reference copy, the latter ending at dst + dstl.
C13_Witness ==
    /\ pc = "d_ret" /\ DecFull /\ DecOnBuffers /\ dec.fn = "d2"
    /\ dec.dstl = 67 /\ dec.ret = 67 /\ dec.nref = 1 /\ dec.nlit = 2
    /\ dec.m.whi = dec.dstl

\* C14: lzav_decompress called with srcl >= 1 reads no byte of the stream
\* at an index of srcl or above.
C14_ReadSafe ==
    (dec.st # "none" /\ DecFull /\ DecOnBuffers /\ dec.srcl >= 1)
    => dec.m.rhi <= dec.srcl

\* C15: lzav_decompress_partial on the whole stream a compressor returned
\* for s, with dstl = | s |, returns | s | and leaves s in the destination.
C15_PartialComplete ==
    (OnPrefix /\ dec.api = "partial" /\ dec.srcl = comp.ret)
    => dec.ret = Len(data) /\ dec.m.dst = data

\* C16: lzav_decompress_partial on a prefix t of the stream a compressor
\* returned for s, with srcl = | t | and dstl = | s |, returns k with
\* 0 <= k <= | s |, the first k bytes of the destination being the first k
\* bytes of s.
C16_PartialPrefix ==
    (OnPrefix /\ dec.api = "partial" /\ dec.srcl >= 1)
    => /\ dec.ret >= 0 /\ dec.ret <= Len(data)
       /\ SubSeq(dec.m.dst, 1, dec.ret) = SubSeq(data, 1, dec.ret)

\* C17: a compressor call allocates at most one heap block; the block is
\* live while the main loop uses the hash table, and a call that has
\* returned has released the block it allocated, once.
C17_AllocDiscipline ==
    /\ comp.heap \in {"none", "live", "freed", "failed"}
    /\ comp.st = "run" => comp.heap \in {"none", "live"}
    /\ (comp.st = "run" /\ comp.fn = "compress_hi") => comp.heap = "live"
    /\ comp.st = "ret" => comp.heap # "live"
    /\ comp.heap = "failed" => comp.st = "ret" /\ comp.ret = 0

\* lzav_compress has returned the stream of a source above 4096 bytes,
\* its hash table allocated on the heap and released.
C17_Witness ==
    /\ pc = "c_ret" /\ comp.fn = "compress" /\ CompOnSource
    /\ comp.srcl > 4096 /\ comp.ret > 0 /\ comp.heap = "freed"

\* C18: the stream a compressor returns for a source of at least 1 byte
\* holds at least the prefix, a literal header and LZAV_LIT_FIN literals,
\* and its last LZAV_LIT_FIN bytes are the last bytes of the source.
C18_TerminalLiterals ==
    (pc = "c_ret" /\ CompOnSource /\ comp.ret > 0)
    => /\ comp.ret >= 2 + LZAV_LIT_FIN
       /\ Len(data) >= LZAV_LIT_FIN
       /\ SubSeq(Compressed(comp), comp.ret - LZAV_LIT_FIN + 1, comp.ret)
            = SubSeq(data, Len(data) - LZAV_LIT_FIN + 1, Len(data))

C27_HiTrueRepetition ==
    (comp.fn = "compress_hi" /\ comp.nref > 0)
    => /\ comp.blk.d = comp.blk.ip - comp.blk.wp
       /\ \A i \in 0..(comp.blk.rc - 1) :
            Rd(data, comp.blk.ip + i) = Rd(data, comp.blk.ip + i - comp.blk.d)

C30_CompWriteSafe ==
    (CompOnSource /\ comp.dstl = CompBound /\ comp.m.wlo # NoPos)
    => comp.m.wlo >= 0 /\ comp.m.whi <= comp.dstl


\* A compressor has returned a stream with reference blocks after an
\* over-long copy stored bytes past the end of that stream, the
\* destination holding exactly the size bound.
C30_Witness ==
    /\ pc = "c_ret" /\ CompOnSource /\ comp.dstl = CompBound
    /\ comp.nref > 0 /\ comp.ret > 0 /\ comp.m.whi > comp.ret

\* C23: the carry shift csh of lzav_decompress_2 is one of 0, 2, 3, 5 at
\* every block-header dispatch, whatever the stream.
C23_CarryShift ==
    (dec.fn = "d2" /\ dec.st = "run") => dec.csh \in {0, 2, 3, 5}

\* C24: after lzav_decompress_2 has expanded a reference block of
\* distance d and length rc at output position p, with d <= p and
\* p + rc <= dstl, out[ p + i ] = out[ p + i - d ] for every 0 <= i < rc.
C24_OverlapCopy ==
    (dec.fn = "d2" /\ dec.last = "ref" /\ dec.d <= dec.rp
     /\ dec.rp + dec.rcc <= dec.dstl)
    => \A i \in 0..(dec.rcc - 1) :
         DstAt(dec.m, dec.rp + i) = DstAt(dec.m, dec.rp + i - dec.d)

\* C25: lzav_decompress_2 returns a length only when the block it
\* processed last is a literal block.
C25_EndsWithLiteral ==
    (pc = "d_ret" /\ DecFull /\ dec.fn = "d2" /\ dec.ret >= 0)
    => dec.last = "lit"

\* C26: the table size htsize lzav_compress chooses is a power of two
\* that does not exceed the capacity of the buffer the table is put in:
\* the 16384 bytes of stack_buf, ext_bufl for the external buffer, the
\* size passed to malloc otherwise.
C26_TableFits ==
    (comp.fn = "compress" /\ comp.htsize > 0)
    => /\ comp.htsize \in {Pow2(k) : k \in 9..20}
       /\ comp.htsize <= HtCapacity(comp.srcl, comp.extp, comp.extl)

\* C28: a call of lzav_compress or lzav_compress_hi that has entered its
\* main loop leaves it and returns.
C28_Termination ==
    (pc = "compress" \/ pc = "compress_hi") ~> (pc = "c_ret")

\* lzav_compress_hi has returned from a call in which an iteration of the
\* lazy matching left ip before the position it had probed.
C28_Witness ==
    /\ pc = "c_ret" /\ comp.fn = "compress_hi" /\ CompOnSource
    /\ comp.ret > 0 /\ comp.nback > 0


\* C21 as stated: every sequence of block pairs written by lzav_write_blk_2
\* and closed by lzav_write_fin_2 is read back by lzav_decompress_2 with
\* the same literal counts, reference lengths and distances, and the
\* finishing literal count.
C21_CodecRoundTrip ==
    (pc = "d_ret" /\ comp.fn = "codec")
    => /\ dec.blks = comp.blks
       /\ dec.op - (dec.rp + dec.rcc) = comp.fin
       /\ dec.ret = comp.out

\* C21: a sequence of block pairs written by lzav_write_blk_2 and closed by
\* lzav_write_fin_2 in which no distance exceeds the output before its
\* reference is read back by lzav_decompress_2 with the same literal
\* counts, reference lengths and distances and the finishing literal
\* count, up to the end of the stream, and the length of the output is
\* returned.  Of any other sequence the pairs before the first distance
\* that exceeds the output are read back so, the literals of that pair are
\* stored, its distance is read as written and LZAV_E_REFOOB is returned.
C21_CodecRoundTripWithin ==
    LET beyond == {i \in 1..Len(comp.blks) :
                      comp.blks[i][3] > comp.cbs[i].out}
    IN  (pc = "d_ret" /\ comp.fn = "codec")
        => IF beyond = {}
           THEN /\ dec.blks = comp.blks
                /\ dec.op - (dec.rp + dec.rcc) = comp.fin
                /\ dec.ip = comp.ret
                /\ dec.ret = comp.out
           ELSE LET k == CHOOSE i \in beyond : \A j \in beyond : i <= j
                IN  /\ dec.blks = SubSeq(comp.blks, 1, k - 1)
                    /\ dec.op = comp.cbs[k].out
                    /\ dec.d = comp.blks[k][3]
                    /\ dec.ret = LZAV_E_REFOOB

\* lzav_decompress_2 has returned the length of a stream of three pairs,
\* all read back as written: a reference of two offset bytes behind
\* literals, whose distance has bits set in the 2 bits carried, one without
\* literals, and a third pair behind it.
C21_Witness ==
    /\ pc = "d_ret" /\ comp.fn = "codec"
    /\ dec.ret = comp.out /\ dec.blks = comp.blks
    /\ Len(comp.blks) = 3
    /\ \E i \in 1..Len(comp.blks) :
         /\ comp.blks[i][1] > 0
         /\ comp.blks[i][3] % 4 # 0
         /\ comp.blks[i][3] \div 4 >= 1024
    /\ \E i \in 1..Len(comp.blks) :
         /\ comp.blks[i][1] = 0
         /\ comp.blks[i][3] >= 1024

\* The call number i of lzav_write_blk_2 found the byte at its carry
\* pointer written, with the bits it sets still zero, and the byte has
\* kept the value the call gave it.
CarryKept(i) ==
    /\ comp.cbs[i].was
    /\ comp.cbs[i].old \div Pow2(8 - comp.cbs[i].csh) = 0
    /\ DstAt(comp.m, comp.cbs[i].cbp) = comp.cbs[i].new

\* C22: at every call of lzav_write_blk_2 the byte at the carry pointer
\* was written before, the bits set in it are still zero and no later
\* write changes it.
C22_CarryPointer == \A i \in 1..Len(comp.cbs) : CarryKept(i)
====
